---- MODULE Spec2Model ----
(***************************************************************************)
(* EmailAlies persistence / sync subsystem.                                *)
(*                                                                         *)
(* The storage adapter (DatabaseManager), the sync service (SyncService)   *)
(* and the sync / device routes, as a state machine over the rows of the   *)
(* bound engine.  Every handler is split at its awaits on the engine: a    *)
(* statement executes atomically, and other requests may run between two   *)
(* statements of one handler.                                              *)
(*                                                                         *)
(* Time.  The JavaScript clock (new Date()) counts milliseconds; the       *)
(* engine's CURRENT_TIMESTAMP is the text 'YYYY-MM-DD HH:MM:SS' (whole     *)
(* seconds, UTC).  The clock is the integer now, in ticks: MsPerSec ticks  *)
(* make a second and SecPerDay seconds a day.  A text is the sequence of   *)
(* its fields with the code point of the separator that follows the date   *)
(* (' ' in engine texts, 'T' in Date.toISOString()), compared field by     *)
(* field as the engine's BINARY collation compares the characters of the   *)
(* fixed-width digits.                                                     *)
(***************************************************************************)
EXTENDS Integers, Sequences, FiniteSets, TLC

\* ------------------------------------------------------------------ bounds
MsPerSec == 2
SecPerDay == 2
MaxTime == 8
MaxDevices == 2
MaxLog == 2
MaxAliases == 1
MaxEmails == 1

None == "none"
\* An absent Date (lastSyncTimestamp left out, no round completed yet).
NoDate == 0 - 1

TicksPerDay == MsPerSec * SecPerDay
\* The first instant of the run: the start of the day after the epoch day.
StartTime == TicksPerDay
\* new Date(0)
Epoch == 0

Users == {"u1", "u2"}
AuthHeaders == Users \cup {None}
DeviceIds == 1..MaxDevices
AliasIds == 1..MaxAliases
EmailIds == 1..MaxEmails
\* A JavaScript undefined (an optional field left out).
Undefined == "undefined"
Requests == {"r1"}

\* ---------------------------------------------------------------- date texts
Space == 32
LetterT == 84

DayOf(t) == t \div TicksPerDay
SecOf(t) == (t % TicksPerDay) \div MsPerSec
MsOf(t) == t % MsPerSec

\* CURRENT_TIMESTAMP: 'YYYY-MM-DD HH:MM:SS'
CurrentTimestamp(t) == <<DayOf(t), Space, SecOf(t)>>

\* Date.prototype.toISOString(): 'YYYY-MM-DDTHH:MM:SS.mmmZ'
toISOString(t) == <<DayOf(t), LetterT, SecOf(t), MsOf(t)>>

\* new Date(row.timestamp) of an engine text (read as UTC)
NewDate(text) == text[1] * TicksPerDay + text[3] * MsPerSec

\* memcmp order of two texts: a < b
RECURSIVE TextLess(_, _)
TextLess(a, b) ==
    IF b = <<>> THEN FALSE
    ELSE IF a = <<>> THEN TRUE
    ELSE IF Head(a) # Head(b) THEN Head(a) < Head(b)
    ELSE TextLess(Tail(a), Tail(b))

\* ------------------------------------------------------------------- schema
\* The column of sync_data that holds the referenced entity id, as the
\* adapter's statements spell it, and as scripts/init-d1.js spells it.
DataIdColumn == <<"d", "a", "t", "-", "i", "d">>
SchemaDataIdColumn == <<"d", "a", "t", "a", "_", "i", "d">>

\* An SQL (or JavaScript) identifier: a bare name holds no '-'; in SQL the
\* '-' ends the column name and the statement fails to parse, in JavaScript
\* row.dat-id is the difference of row.dat and the unbound name id.
IsIdentifier(col) == \A k \in 1..Len(col) : col[k] # "-"

BaseTables == {"users", "email_aliases", "emails", "devices"}

\* The users columns that the two ALTER TABLE statements add, and the
\* indexes of the last entry of the list, each with its table.
UsersColumns == {"users.master_key_salt", "users.is_admin"}
Indexes ==
    << <<"idx_email_aliases_user_id", "email_aliases">>,
       <<"idx_emails_alias_id", "emails">>,
       <<"idx_devices_user_id", "devices">>,
       <<"idx_sync_data_user_id", "sync_data">> >>

\* The entries of the schemas list, in order.  A schema object is a table, a
\* users column a migration adds, or an index, by name.
Schemas(col) ==
    << [kind |-> "table", name |-> "users", parses |-> TRUE],
       [kind |-> "column", name |-> "users.master_key_salt"],
       [kind |-> "column", name |-> "users.is_admin"],
       [kind |-> "table", name |-> "email_aliases", parses |-> TRUE],
       [kind |-> "table", name |-> "emails", parses |-> TRUE],
       [kind |-> "table", name |-> "devices", parses |-> TRUE],
       [kind |-> "table", name |-> "sync_data", parses |-> IsIdentifier(col)],
       [kind |-> "indexes"] >>

\* CREATE INDEX IF NOT EXISTS, one statement after the other; the first that
\* fails (its table is missing) ends the exec.
RECURSIVE CreateIndexes(_, _)
CreateIndexes(objs, list) ==
    IF list = <<>> THEN [failed |-> FALSE, objs |-> objs]
    ELSE IF Head(list)[2] \notin objs THEN [failed |-> TRUE, objs |-> objs]
    ELSE CreateIndexes(objs \cup {Head(list)[1]}, Tail(list))

\* exec(schema) of one entry: CREATE TABLE IF NOT EXISTS (the users table is
\* created with both columns), ALTER TABLE users ADD COLUMN (fails on a
\* duplicate column), or the index statements.
Exec(objs, schema) ==
    IF schema.kind = "table"
    THEN IF ~schema.parses THEN [failed |-> TRUE, objs |-> objs]
         ELSE IF schema.name \in objs THEN [failed |-> FALSE, objs |-> objs]
         ELSE [failed |-> FALSE,
               objs |-> objs \cup {schema.name}
                          \cup (IF schema.name = "users" THEN UsersColumns
                                ELSE {})]
    ELSE IF schema.kind = "column"
    THEN IF "users" \in objs /\ schema.name \notin objs
         THEN [failed |-> FALSE, objs |-> objs \cup {schema.name}]
         ELSE [failed |-> TRUE, objs |-> objs]
    ELSE CreateIndexes(objs, Indexes)

\* The loop with its try / catch around the whole loop: the first failing
\* entry ends the loop, and no error leaves the function.
RECURSIVE RunSchemasCaughtOutside(_, _)
RunSchemasCaughtOutside(objs, list) ==
    IF list = <<>> THEN [raised |-> FALSE, tables |-> objs]
    ELSE LET res == Exec(objs, Head(list))
         IN IF res.failed THEN [raised |-> FALSE, tables |-> res.objs]
            ELSE RunSchemasCaughtOutside(res.objs, Tail(list))
\* The loop with its try / catch left out: the first failing entry ends it
\* and the error leaves the function.
RECURSIVE RunSchemasUncaught(_, _)
RunSchemasUncaught(objs, list) ==
    IF list = <<>> THEN [raised |-> FALSE, tables |-> objs]
    ELSE LET res == Exec(objs, Head(list))
         IN IF res.failed THEN [raised |-> TRUE, tables |-> res.objs]
            ELSE RunSchemasUncaught(res.objs, Tail(list))
\* for (const schema of schemas) { try { exec(schema) } catch { log } }: a
\* failing entry is logged (or ignored) and the loop goes on; no error leaves
\* the function.
RECURSIVE RunSchemas(_, _)
RunSchemas(objs, list) ==
    IF list = <<>> THEN [raised |-> FALSE, tables |-> objs]
    ELSE RunSchemas(Exec(objs, Head(list)).objs, Tail(list))

\* The adapter's DDL list applied to the schema objects tabs: the sync_data
\* statement is a syntax error when its column is no identifier.
initializeTables(col, tabs) == RunSchemas(tabs, Schemas(col)).tables

\* The schemas an engine may have when the adapter is first bound to it: any
\* tables, users columns and indexes left by an earlier version or a script
\* (a column or an index only with its table).
SchemaObjects ==
    BaseTables \cup {"sync_data"} \cup UsersColumns
        \cup { Indexes[k][1] : k \in 1..Len(Indexes) }
StartSchemas ==
    { s \in SUBSET SchemaObjects :
        /\ \A c \in UsersColumns : c \in s => "users" \in s
        /\ \A k \in 1..Len(Indexes) :
              Indexes[k][1] \in s => Indexes[k][2] \in s }

\* scripts/init-d1.js applied to a fresh edge database: its users table has
\* no is_admin column.
InitD1Schema ==
    BaseTables \cup {"sync_data", "users.master_key_salt"}
        \cup { Indexes[k][1] : k \in 1..Len(Indexes) }

VARIABLES
    now,        \* the clock, in ticks
    tables,     \* the tables of the bound engine
    aliases,    \* email_aliases rows, by id
    emails,     \* emails rows, by id
    deleting,   \* alias ids whose deleteAlias is between its two statements
    devices,    \* devices rows, by id
    syncData,   \* sync_data rows, by insertion number
    req,        \* the sync requests in flight, by slot
    client,     \* per device id: what the device holds between rounds
    lastCall,   \* the last recordChange call and what it did
    alloc,      \* the alias allocation requests in flight, by slot
    dbInstance, \* the module's local singleton: a manager, or none
    managers,   \* every DatabaseManager constructed so far, in order
    calls,      \* per caller: its handler's position and the adapter it got
    users,      \* users rows, by email
    generated,  \* per email: the key generateMasterKey returned for its row
    session,    \* per email: what the last decryptMasterKey of a request gave
    batch,      \* the log entries of a sync result a caller holds
    decrypted,  \* per entry of batch: what decryptSyncData gave for it
    edit,       \* the alias update and delete requests in flight, by slot
    syncServiceInstance, \* the manager of the sync service singleton, if any
    completed,  \* the runs of the admin script that ran to completion
    requests,   \* RateLimiter.requests: the request times of each identifier
    verdict     \* what the last call of the rate limiter returned

\* The state of the module that hands out adapters.
runtime == <<dbInstance, managers, calls, syncServiceInstance>>

\* The users table and the master keys held in memory.
keyring == <<users, generated, session, completed>>

\* A sync result in the hands of a caller that decrypts its entries.
reader == <<batch, decrypted>>

\* The rate limiter and the last answer it gave.
limiter == <<requests, verdict>>

vars == <<now, tables, aliases, emails, deleting, devices, syncData, req,
          client, lastCall, alloc, runtime, keyring, reader, edit, limiter>>

\* ------------------------------------------------------------ device rows
\* createDevice with its second and third parameters in the wrong order.
createDeviceSwapped(devs, id, userId, deviceName, deviceKey, t) ==
    devs @@ (id :> [user_id |-> deviceName, device_name |-> userId,
                    device_key |-> deviceKey,
                    last_sync |-> CurrentTimestamp(t)])
\* DatabaseManager.createDevice: last_sync defaults to CURRENT_TIMESTAMP
\* (so does created_at, which no statement reads but ORDER BY: it is left out
\* of the rows, and the rows of a user are a set).
createDevice(devs, id, userId, deviceName, deviceKey, t) ==
    devs @@ (id :> [user_id |-> userId, device_name |-> deviceName,
                    device_key |-> deviceKey,
                    last_sync |-> CurrentTimestamp(t)])

\* DatabaseManager.getDevicesByUserId: the rows of the user, mapped.
getDevicesByUserId(devs, userId) ==
    { [id |-> d, userId |-> devs[d].user_id, deviceName |-> devs[d].device_name,
       deviceKey |-> devs[d].device_key, lastSync |-> NewDate(devs[d].last_sync)] :
      d \in {x \in DOMAIN devs : devs[x].user_id = userId} }

\* updateDeviceLastSync with the WHERE clause left out of its UPDATE.
updateDeviceLastSyncAll(devs, deviceId, t) ==
    [d \in DOMAIN devs |-> [devs[d] EXCEPT !.last_sync = CurrentTimestamp(t)]]
\* DatabaseManager.updateDeviceLastSync: UPDATE ... WHERE id = ?; a statement
\* that matches no row changes nothing and raises nothing.
updateDeviceLastSync(devs, deviceId, t) ==
    [d \in DOMAIN devs |->
        IF d = deviceId THEN [devs[d] EXCEPT !.last_sync = CurrentTimestamp(t)]
        ELSE devs[d]]

\* -------------------------------------------------------------- sync_data
\* The empty text '' (a text is the sequence of its parts).
EmptyText == <<>>
\* JSON.stringify(data): the JSON text of a value, and JSON.parse, which
\* raises a SyntaxError on a text that is no JSON text.
Stringify(data) == <<"json", data>>
Parse(text) ==
    IF Len(text) = 2 /\ text[1] = "json"
    THEN [raised |-> FALSE, value |-> text[2]]
    ELSE [raised |-> TRUE, value |-> None]
\* ClientEncryption.encrypt(text, key): a non-empty text.
Encrypt(data, key) == <<"enc", key, data>>
\* ClientEncryption.decrypt(ciphertext, key): the text that was encrypted
\* under the key; a ciphertext that the key does not authenticate raises.
Decrypt(ciphertext, key) ==
    IF Len(ciphertext) = 3 /\ ciphertext[1] = "enc" /\ ciphertext[2] = key
    THEN [raised |-> FALSE, text |-> ciphertext[3]]
    ELSE [raised |-> TRUE, text |-> None]

\* decryptSyncData without its try / catch: what decrypt or JSON.parse
\* raises leaves the function.
decryptSyncDataUncaught(entry, decryptionKey) ==
    IF entry.encryptedData = EmptyText
    THEN [raised |-> FALSE, value |-> "null"]
    ELSE LET dec == Decrypt(entry.encryptedData, decryptionKey)
         IN IF dec.raised THEN [raised |-> TRUE, value |-> None]
            ELSE Parse(dec.text)
\* SyncService.decryptSyncData: null for an empty ciphertext; otherwise the
\* parsed plaintext, or null (after console.error) when decrypt or JSON.parse
\* raised.
decryptSyncData(entry, decryptionKey) ==
    IF entry.encryptedData = EmptyText
    THEN [raised |-> FALSE, value |-> "null"]
    ELSE LET dec == Decrypt(entry.encryptedData, decryptionKey)
         IN IF dec.raised THEN [raised |-> FALSE, value |-> "null"]
            ELSE LET parsed == Parse(dec.text)
                 IN IF parsed.raised THEN [raised |-> FALSE, value |-> "null"]
                    ELSE parsed

\* The rows a statement on sync_data can touch: the statement is prepared
\* only if the table exists and every column it names is an identifier.
SyncStatementOk(col, tabs) == IsIdentifier(col) /\ "sync_data" \in tabs

\* DatabaseManager.createSyncData: one INSERT; timestamp defaults to
\* CURRENT_TIMESTAMP; user_id and device_id are foreign keys (both engines
\* enforce them).  raised: the statement failed and no row was written.
createSyncData(col, tabs, devs, log, row, t) ==
    IF SyncStatementOk(col, tabs) /\ row.userId \in Users
       /\ row.deviceId \in DOMAIN devs
    THEN [raised |-> FALSE,
          log |-> log @@ (Cardinality(DOMAIN log) + 1 :>
                    [user_id |-> row.userId, device_id |-> row.deviceId,
                     data_type |-> row.dataType, data_id |-> row.dataId,
                     encrypted_data |-> row.encryptedData,
                     operation |-> row.operation,
                     timestamp |-> CurrentTimestamp(t)])]
    ELSE [raised |-> TRUE, log |-> log]

\* ORDER BY timestamp ASC over the row numbers ids (rows of one text keep
\* their insertion order).
RECURSIVE OrderByTimestamp(_, _)
OrderByTimestamp(log, ids) ==
    IF ids = {} THEN <<>>
    ELSE LET first == CHOOSE i \in ids : \A j \in ids :
                          \/ TextLess(log[i].timestamp, log[j].timestamp)
                          \/ (log[i].timestamp = log[j].timestamp /\ i <= j)
         IN <<first>> \o OrderByTimestamp(log, ids \ {first})

\* The WHERE clause with the timestamp condition left out.
SyncWhereUser(log, userId, timestamp) ==
    { i \in DOMAIN log : log[i].user_id = userId }
\* WHERE user_id = ? AND timestamp > ?  with the bound text
\* timestamp.toISOString(): a comparison of two texts.
SyncWhere(log, userId, timestamp) ==
    { i \in DOMAIN log : /\ log[i].user_id = userId
                         /\ TextLess(toISOString(timestamp), log[i].timestamp) }

\* DatabaseManager.getSyncDataAfterTimestamp.  The SELECT needs the table;
\* the row mapping reads row.<col>, which for a col that is no identifier is
\* an expression over an unbound name and raises on the first row mapped.
getSyncDataAfterTimestamp(col, tabs, log, userId, timestamp) ==
    LET ids == SyncWhere(log, userId, timestamp)
        order == OrderByTimestamp(log, ids)
    IN IF "sync_data" \notin tabs \/ (ids # {} /\ ~IsIdentifier(col))
       THEN [raised |-> TRUE, rows |-> <<>>]
       ELSE [raised |-> FALSE,
             rows |-> [k \in 1..Len(order) |->
                 [id |-> order[k], userId |-> log[order[k]].user_id,
                  deviceId |-> log[order[k]].device_id,
                  dataType |-> log[order[k]].data_type,
                  dataId |-> log[order[k]].data_id,
                  encryptedData |-> log[order[k]].encrypted_data,
                  operation |-> log[order[k]].operation,
                  timestamp |-> NewDate(log[order[k]].timestamp)]]]

\* ------------------------------------------------------------ alias rows
\* getAliasesByUserId with the WHERE clause left out of its SELECT.
getAliasesOfAllUsers(als, userId) ==
    { [id |-> a, userId |-> als[a].user_id, alias |-> als[a].alias,
       description |-> als[a].description,
       forwardingEmail |-> als[a].forwarding_email,
       isActive |-> (als[a].is_active = 1),
       createdAt |-> NewDate(als[a].created_at),
       updatedAt |-> NewDate(als[a].updated_at)] : a \in DOMAIN als }
\* DatabaseManager.getAliasesByUserId: the rows of the user, mapped
\* (is_active === 1 becomes a boolean).
getAliasesByUserId(als, userId) ==
    { [id |-> a, userId |-> als[a].user_id, alias |-> als[a].alias,
       description |-> als[a].description,
       forwardingEmail |-> als[a].forwarding_email,
       isActive |-> (als[a].is_active = 1),
       createdAt |-> NewDate(als[a].created_at),
       updatedAt |-> NewDate(als[a].updated_at)] :
      a \in {x \in DOMAIN als : als[x].user_id = userId} }

\* x ? 1 : 0 over the JavaScript values true, false and undefined.
Truthy(x) == x = "true"

\* createAlias on a table whose alias column carries no UNIQUE constraint.
createAliasNotUnique(als, row, t) ==
    IF \/ row.id \in DOMAIN als
       \/ row.userId \notin Users
       \/ row.description = Undefined
    THEN [raised |-> TRUE, aliases |-> als]
    ELSE [raised |-> FALSE,
          aliases |-> als @@ (row.id :>
              [user_id |-> row.userId, alias |-> row.alias,
               description |-> row.description,
               forwarding_email |-> row.forwardingEmail,
               is_active |-> IF Truthy(row.isActive) THEN 1 ELSE 0,
               created_at |-> CurrentTimestamp(t),
               updated_at |-> CurrentTimestamp(t)])]
\* DatabaseManager.createAlias: one INSERT.  It raises on a repeated id
\* (PRIMARY KEY), a repeated alias string of any user (UNIQUE), an unknown
\* user (FOREIGN KEY) and on an undefined description (neither engine binds
\* undefined).
createAlias(als, row, t) ==
    IF \/ row.id \in DOMAIN als
       \/ \E a \in DOMAIN als : als[a].alias = row.alias
       \/ row.userId \notin Users
       \/ row.description = Undefined
    THEN [raised |-> TRUE, aliases |-> als]
    ELSE [raised |-> FALSE,
          aliases |-> als @@ (row.id :>
              [user_id |-> row.userId, alias |-> row.alias,
               description |-> row.description,
               forwarding_email |-> row.forwardingEmail,
               is_active |-> IF Truthy(row.isActive) THEN 1 ELSE 0,
               created_at |-> CurrentTimestamp(t),
               updated_at |-> CurrentTimestamp(t)])]

\* updateAlias with its first parameter bound to forwarding_email.
updateAliasForwarding(als, id, updates, t) ==
    IF updates.description = Undefined
    THEN [raised |-> TRUE, aliases |-> als]
    ELSE [raised |-> FALSE,
          aliases |-> [a \in DOMAIN als |->
              IF a = id
              THEN [als[a] EXCEPT !.forwarding_email = updates.description,
                                  !.is_active = IF Truthy(updates.isActive)
                                                THEN 1 ELSE 0,
                                  !.updated_at = CurrentTimestamp(t)]
              ELSE als[a]]]
\* DatabaseManager.updateAlias: UPDATE ... SET description = ?, is_active = ?,
\* updated_at = CURRENT_TIMESTAMP WHERE id = ? with the parameters
\* [updates.description, updates.isActive ? 1 : 0, id].
updateAlias(als, id, updates, t) ==
    IF updates.description = Undefined
    THEN [raised |-> TRUE, aliases |-> als]
    ELSE [raised |-> FALSE,
          aliases |-> [a \in DOMAIN als |->
              IF a = id
              THEN [als[a] EXCEPT !.description = updates.description,
                                  !.is_active = IF Truthy(updates.isActive)
                                                THEN 1 ELSE 0,
                                  !.updated_at = CurrentTimestamp(t)]
              ELSE als[a]]]

\* The first statement with its WHERE clause left out.
deleteAllEmails(ems, id) == <<>>
\* deleteAlias, first statement: DELETE FROM emails WHERE alias_id = ?
deleteAliasEmails(ems, id) ==
    [m \in {x \in DOMAIN ems : ems[x].alias_id # id} |-> ems[m]]

\* The second statement on an engine that does not enforce foreign keys.
deleteAliasRowUnchecked(als, ems, id) ==
    [raised |-> FALSE, aliases |-> [a \in DOMAIN als \ {id} |-> als[a]]]
\* deleteAlias, second statement: DELETE FROM email_aliases WHERE id = ?;
\* it fails while an email still references the row (FOREIGN KEY).
deleteAliasRow(als, ems, id) ==
    IF id \in DOMAIN als /\ \E m \in DOMAIN ems : ems[m].alias_id = id
    THEN [raised |-> TRUE, aliases |-> als]
    ELSE [raised |-> FALSE,
          aliases |-> [a \in DOMAIN als \ {id} |-> als[a]]]

\* ------------------------------------------------------------- email rows
\* DatabaseManager.createEmail: one INSERT; is_read defaults to 0 and
\* received_at to CURRENT_TIMESTAMP; alias_id is a foreign key.
createEmail(ems, als, row, t) ==
    IF row.id \in DOMAIN ems \/ row.aliasId \notin DOMAIN als
    THEN [raised |-> TRUE, emails |-> ems]
    ELSE [raised |-> FALSE,
          emails |-> ems @@ (row.id :>
              [alias_id |-> row.aliasId, from_email |-> row.from,
               to_email |-> row.to, subject |-> row.subject,
               content |-> row.content, is_read |-> 0,
               received_at |-> CurrentTimestamp(t)])]

\* markEmailAsRead flipping the flag: SET is_read = 1 - is_read.
markEmailToggle(ems, id) ==
    [m \in DOMAIN ems |->
        IF m = id THEN [ems[m] EXCEPT !.is_read = 1 - ems[m].is_read]
        ELSE ems[m]]
\* DatabaseManager.markEmailAsRead: UPDATE emails SET is_read = 1 WHERE id = ?
markEmailAsRead(ems, id) ==
    [m \in DOMAIN ems |->
        IF m = id THEN [ems[m] EXCEPT !.is_read = 1] ELSE ems[m]]

\* ORDER BY received_at DESC over the email ids (rows of one text by id).
RECURSIVE OrderByReceivedDesc(_, _)
OrderByReceivedDesc(ems, ids) ==
    IF ids = {} THEN <<>>
    ELSE LET first == CHOOSE i \in ids : \A j \in ids :
                          \/ TextLess(ems[j].received_at, ems[i].received_at)
                          \/ (ems[i].received_at = ems[j].received_at /\ i <= j)
         IN <<first>> \o OrderByReceivedDesc(ems, ids \ {first})

\* getEmailsByAliasId with the flag mapped by row.is_read === true.
getEmailsNeverRead(ems, aliasId) ==
    LET order == OrderByReceivedDesc(ems,
                     {m \in DOMAIN ems : ems[m].alias_id = aliasId})
    IN [k \in 1..Len(order) |->
           [id |-> order[k], aliasId |-> ems[order[k]].alias_id,
            from |-> ems[order[k]].from_email, to |-> ems[order[k]].to_email,
            subject |-> ems[order[k]].subject,
            content |-> ems[order[k]].content,
            isRead |-> FALSE,
            receivedAt |-> NewDate(ems[order[k]].received_at)]]
\* DatabaseManager.getEmailsByAliasId: the rows of the alias, newest first,
\* mapped (is_read === 1 becomes a boolean).
getEmailsByAliasId(ems, aliasId) ==
    LET order == OrderByReceivedDesc(ems,
                     {m \in DOMAIN ems : ems[m].alias_id = aliasId})
    IN [k \in 1..Len(order) |->
           [id |-> order[k], aliasId |-> ems[order[k]].alias_id,
            from |-> ems[order[k]].from_email, to |-> ems[order[k]].to_email,
            subject |-> ems[order[k]].subject,
            content |-> ems[order[k]].content,
            isRead |-> (ems[order[k]].is_read = 1),
            receivedAt |-> NewDate(ems[order[k]].received_at)]]

\* ------------------------------------------------------------------ inputs
\* What a recordChange caller passes: <<dataType, dataId, operation, data,
\* encryptionKey>>, data and key optional.
RecordInputs ==
    { <<"alias", 1, "create", "payload", "key">>,
      <<"alias", 1, "update", "payload", Undefined>>,
      <<"email", 1, "delete", Undefined, Undefined>> }

\* The lastSyncTimestamp a device may send besides none and the syncTimestamp
\* of its last round.
LastSyncInputs == {MaxTime}

NoCall ==
    [called |-> FALSE, userId |-> None, deviceId |-> 0, in |-> <<>>,
     before |-> {}, raised |-> FALSE]

IdleReq ==
    [pc |-> "idle", user |-> None, device |-> 0, lastSync |-> NoDate,
     chain |-> FALSE, syncTimestamp |-> NoDate, logAtFix |-> {},
     changes |-> <<>>, aliases |-> {}, status |-> None]

\* A device before its first round: ret is the syncTimestamp of its last
\* successful round; chained, seen and prevLog record its rounds so far
\* (whether each passed the previous syncTimestamp, the log rows its windows
\* held, the log rows stored when its last round fixed its syncTimestamp).
NewClient == [ret |-> NoDate, chained |-> TRUE, seen |-> {}, prevLog |-> {}]

Ids(rows) == { rows[k].id : k \in 1..Len(rows) }

\* The alias allocation requests (POST of the aliases route) that may run
\* at once, and one of them before it arrives.  clear records whether a
\* candidate of the request was the alias of no stored row when it was
\* looked up.
AllocSlots == {"a1", "a2"}
IdleAlloc ==
    [pc |-> "idle", user |-> None, description |-> Undefined, alias |-> None,
     attempts |-> 0, clear |-> FALSE, status |-> None]

\* ------------------------------------------------------- adapter lifecycle
\* The managers the model lets the process construct.
MaxManagers == 3

\* The edge engine handles (context.env.DB) a request may carry; a request
\* of a local process carries none.
Handles == {"DB1", "DB2"}
Callers == {"c1", "c2"}

\* The request handlers that obtain an adapter, and whether the handler
\* awaits getDatabase before it uses the result: the login route does not.
Routes == {"login", "verify", "register-device", "sync", "aliases"}
Awaited(route) == route # "login"

\* No manager: the null of dbInstance.
NoManager == 0

IdleCall ==
    [pc |-> "idle", route |-> None, db |-> NoManager, used |-> None,
     outcome |-> None]

\* The methods the adapter operations pass to the dispatcher, and how a
\* statement may end in the bound engine: it succeeds, or the engine raises
\* its own error (better-sqlite3: SqliteError for a constraint or a syntax
\* error, TypeError for a value it cannot bind or a closed connection; D1:
\* its D1_ERROR, which covers constraint, syntax and transport failures, or
\* D1_TYPE_ERROR for a value it cannot bind).
Methods == {"run", "get", "all"}
LocalOutcomes == {"ok", "SqliteError", "TypeError"}
EdgeOutcomes == {"ok", "D1_ERROR", "D1_TYPE_ERROR"}

\* DatabaseManager._execute: prepare, bind and run / first / all (run / get /
\* all) on the bound engine, with no try / catch: what the engine raises
\* leaves the dispatcher as it is.  A manager always holds the engine its
\* constructor bound, so the last branch ('No database instance available.')
\* is not taken, and the adapter passes no method but the three.
_execute(mgr, method, engine) ==
    IF mgr.handle # None
    THEN IF engine # "ok" THEN [raised |-> TRUE, error |-> engine]
         ELSE [raised |-> FALSE, error |-> None]
    ELSE IF engine # "ok" THEN [raised |-> TRUE, error |-> engine]
         ELSE [raised |-> FALSE, error |-> None]

\* new DatabaseManager(d1Instance?): an edge manager keeps the handle and is
\* initialized later by initializeTablesAsync; a local manager opens the
\* database file and runs initializeTables in the constructor.
newDatabaseManager(mgrs, handle) ==
    Append(mgrs, [handle |-> handle,
                  state |-> IF handle = None THEN "ready" ELSE "initializing",
                  closed |-> 0])

\* getDatabase with the singleton test left out: every call constructs.
getDatabaseAlwaysNew(inst, mgrs, handle) ==
    [dbInstance |-> IF handle = None THEN Len(mgrs) + 1 ELSE inst,
     managers |-> newDatabaseManager(mgrs, handle),
     manager |-> Len(mgrs) + 1]
\* getDatabase keeping one manager for the edge too: the first manager of
\* any handle is stored and handed to every later call.
getDatabaseShared(inst, mgrs, handle) ==
    IF inst = NoManager
    THEN [dbInstance |-> Len(mgrs) + 1,
          managers |-> newDatabaseManager(mgrs, handle),
          manager |-> Len(mgrs) + 1]
    ELSE [dbInstance |-> inst, managers |-> mgrs, manager |-> inst]
\* getDatabase(d1Instance?): with a handle, a new manager bound to it; with
\* none, the singleton, constructed when there is none.  manager is the
\* adapter the returned promise resolves to.
getDatabase(inst, mgrs, handle) ==
    IF handle # None
    THEN [dbInstance |-> inst,
          managers |-> newDatabaseManager(mgrs, handle),
          manager |-> Len(mgrs) + 1]
    ELSE IF inst = NoManager
    THEN [dbInstance |-> Len(mgrs) + 1,
          managers |-> newDatabaseManager(mgrs, None),
          manager |-> Len(mgrs) + 1]
    ELSE [dbInstance |-> inst, managers |-> mgrs, manager |-> inst]

\* getSyncService() as the routes call it, without a manager: the service
\* singleton, constructed when there is none around getDatabase() with no
\* handle, which constructs and stores the local adapter singleton when there
\* is none.  opens: whether the runtime lets the local database be opened;
\* if not, the constructor throws inside getDatabase, dbInstance stays as it
\* was and the service holds the rejected promise (written 0 - 1).
getSyncService(svc, inst, mgrs, opens) ==
    IF svc # NoManager
    THEN [syncServiceInstance |-> svc, dbInstance |-> inst, managers |-> mgrs]
    ELSE IF inst = NoManager /\ ~opens
    THEN [syncServiceInstance |-> 0 - 1, dbInstance |-> inst,
          managers |-> mgrs]
    ELSE LET res == getDatabase(inst, mgrs, None)
         IN [syncServiceInstance |-> res.manager,
             dbInstance |-> res.dbInstance, managers |-> res.managers]

\* closeDatabase(): the singleton, if there is one, is closed and forgotten.
closeDatabase(inst, mgrs) ==
    IF inst = NoManager THEN [dbInstance |-> NoManager, managers |-> mgrs]
    ELSE [dbInstance |-> NoManager,
          managers |-> [mgrs EXCEPT ![inst].closed = @ + 1]]

\* -------------------------------------------------------------- master keys
\* The runs of the admin script the model counts.
MaxRuns == 3

\* The users of the admin script, and the values crypto.randomBytes may
\* return for a master key, a salt and an initialization vector.
AdminEmails == {"spoass@icloud.com", "laila.torresanz@hotmail.com"}
MasterKeys == {"k1", "k2"}
Salts == {"s1", "s2"}
Ivs == {"iv1", "iv2"}

ServiceKey == "emailalies-service-key-2024"

\* crypto.scryptSync(password, salt, 32): a key that depends on both.
scryptSync(password, salt) == <<"scrypt", password, salt>>
\* aes-256-cbc with PKCS#7 padding: the ciphertext of plain under key and iv,
\* and its decryption, which gives the plaintext back under the same key and
\* iv and fails (or gives other bytes) under any other.
Encipher(key, iv, plain) == <<"aes-256-cbc", key, iv, plain>>
Decipher(key, iv, ciphertext) ==
    IF ciphertext[2] = key /\ ciphertext[3] = iv
    THEN [ok |-> TRUE, plain |-> ciphertext[4]]
    ELSE [ok |-> FALSE, plain |-> None]
\* Buffer.concat([iv, encrypted]).toString('base64') and its decoding.
ToBase64(iv, encrypted) == <<"base64", iv, encrypted>>
FromBase64(text) == [iv |-> text[2], encrypted |-> text[3]]

\* encryptMasterKey deriving its key from a constant salt.
encryptMasterKeyFixedSalt(masterKey, salt, iv) ==
    ToBase64(iv, Encipher(scryptSync(ServiceKey, "salt"), iv, masterKey))
\* MasterKeyManager.encryptMasterKey(masterKey, salt), with the iv that
\* crypto.randomBytes(16) returns.
encryptMasterKey(masterKey, salt, iv) ==
    ToBase64(iv, Encipher(scryptSync(ServiceKey, salt), iv, masterKey))

\* scripts/init-admin-users.js from its existence check on: nothing is done
\* when a row of either admin email exists; otherwise, for each admin email,
\* a key and a salt are generated, the key is wrapped and the row is
\* inserted, and an insert that the engine fails is logged and skipped.
\* draw: the random values of each email; ok: whether its insert goes through.
\* Gives the users table and the keys generated for the rows inserted.
initAdminUsers(us, gen, draw, ok) ==
    IF \E email \in AdminEmails : email \in DOMAIN us
    THEN [users |-> us, generated |-> gen]
    ELSE LET done == {email \in AdminEmails : ok[email]}
         IN [users |-> us @@
                [email \in done |->
                    [encryption_key |->
                        encryptMasterKey(draw[email].masterKey,
                                         draw[email].salt, draw[email].iv),
                     master_key_salt |-> draw[email].salt,
                     is_admin |-> 1]],
             generated |-> gen @@
                [email \in done |-> draw[email].masterKey]]

\* MasterKeyManager.decryptMasterKey(blob, salt): the key is derived from
\* the service secret and the salt and the blob is decrypted with it; a blob
\* the derived key does not open is a DecryptionFailed.
decryptMasterKey(blob, salt) ==
    LET parts == FromBase64(blob)
        res == Decipher(scryptSync(ServiceKey, salt), parts.iv,
                        parts.encrypted)
    IN IF res.ok THEN res.plain ELSE "DecryptionFailed"

\* ------------------------------------------------------ decrypting a result
\* The entries of a sync result the model lets a caller hold.
MaxBatch == 2

\* The ciphertexts an entry may carry: none (a metadata-only entry), a
\* payload encrypted under either master key, an encrypted text that is no
\* JSON text, and bytes that are no ciphertext.
Ciphertexts ==
    { EmptyText,
      Encrypt(Stringify("d1"), "k1"),
      Encrypt(Stringify("d2"), "k2"),
      Encrypt(<<"text", "d3">>, "k1"),
      <<"corrupt">> }

Pending == [raised |-> FALSE, value |-> "pending"]
Aborted == [raised |-> FALSE, value |-> "aborted"]

\* ------------------------------------------------- alias update and delete
\* The PUT or DELETE request of the aliases route that is in flight,
\* and a slot before a request arrives.  removed: the emails the first
\* statement of its deleteAlias removed.
EditSlots == {"e1"}
IdleEdit ==
    [pc |-> "idle", kind |-> None, user |-> None, id |-> 0,
     updates |-> [description |-> Undefined, isActive |-> Undefined],
     removed |-> {}, status |-> None]

\* The ownership lookup without the filter on the user.
FindAliasOfAnyUser(als, userId, id) == id \in DOMAIN als
\* (await db.getAliasesByUserId(user.id)).find(a => a.id === params.id)
FindAlias(als, userId, id) ==
    \E a \in getAliasesByUserId(als, userId) : a.id = id

\* ------------------------------------------------------------ rate limiter
\* new RateLimiter(maxRequests, windowMs), with small values for both.
maxRequests == 2
windowMs == 2

\* requests.get(identifier) || []
RequestsOf(reqs, identifier) ==
    IF identifier \in DOMAIN reqs THEN reqs[identifier] ELSE <<>>
\* userRequests.filter(time => time > windowStart)
RecentRequests(reqs, identifier, t) ==
    SelectSeq(RequestsOf(reqs, identifier), LAMBDA time : time > t - windowMs)

\* isRateLimited refusing only above the limit.
isRateLimitedAboveLimit(reqs, identifier, t) ==
    LET recentRequests == RecentRequests(reqs, identifier, t)
    IN IF Len(recentRequests) > maxRequests
       THEN [limited |-> TRUE, requests |-> reqs]
       ELSE [limited |-> FALSE,
             requests |-> [i \in DOMAIN reqs \cup {identifier} |->
                             IF i = identifier THEN Append(recentRequests, t)
                             ELSE reqs[i]]]
\* RateLimiter.isRateLimited(identifier) at Date.now() = t: what it returns
\* and the map it leaves.
isRateLimited(reqs, identifier, t) ==
    LET recentRequests == RecentRequests(reqs, identifier, t)
    IN IF Len(recentRequests) >= maxRequests
       THEN [limited |-> TRUE, requests |-> reqs]
       ELSE [limited |-> FALSE,
             requests |-> [i \in DOMAIN reqs \cup {identifier} |->
                             IF i = identifier THEN Append(recentRequests, t)
                             ELSE reqs[i]]]

\* RateLimiter.getRemainingRequests(identifier) at Date.now() = t: what it
\* returns and the map it leaves.
getRemainingRequests(reqs, identifier, t) ==
    LET left == maxRequests - Len(RecentRequests(reqs, identifier, t))
    IN [remaining |-> IF left > 0 THEN left ELSE 0, requests |-> reqs]

\* -------------------------------------------------------------------- init
InitWith(col) ==
    /\ now = StartTime
    /\ tables \in { initializeTables(col, {}),
                    initializeTables(col, InitD1Schema) }
    /\ aliases = <<>>
    /\ emails = <<>>
    /\ deleting = {}
    /\ devices = <<>>
    /\ syncData = <<>>
    /\ req = [r \in Requests |-> IdleReq]
    /\ client = [d \in DeviceIds |-> NewClient]
    /\ lastCall = NoCall
    /\ alloc = [s \in AllocSlots |-> IdleAlloc]
    /\ dbInstance = NoManager
    /\ managers = <<>>
    /\ calls = [c \in Callers |-> IdleCall]
    /\ users = <<>>
    /\ generated = <<>>
    /\ session = [m \in AdminEmails |-> None]
    /\ batch = <<>>
    /\ decrypted = <<>>
    /\ edit = [s \in EditSlots |-> IdleEdit]
    /\ syncServiceInstance = NoManager
    /\ completed = 0
    /\ requests = <<>>
    /\ verdict = [call |-> None, identifier |-> None, value |-> 0]

\* ------------------------------------------------------------------- clock
Tick ==
    /\ now < MaxTime
    /\ now' = now + 1
    /\ UNCHANGED <<tables, aliases, emails, deleting, devices, syncData, req,
                   client, lastCall, alloc, runtime, keyring, reader, edit,
                   limiter>>

\* ------------------------------------------------------- register device
\* getAuthenticatedUser: the user row named by the authorization header.
getAuthenticatedUser(auth) == IF auth \in Users THEN auth ELSE None

\* POST (register device route) with SyncService.registerDevice: a fresh
\* device id (crypto.randomUUID, here the least unused of ids), a fresh device
\* key, one createDevice.
RegisterDevice(auth, deviceName, ids) ==
    /\ getAuthenticatedUser(auth) # None
    /\ \E id \in ids :
        /\ id \notin DOMAIN devices
        /\ \A j \in DeviceIds : j < id => j \in DOMAIN devices
        /\ devices' = createDevice(devices, id, auth, deviceName, "deviceKey", now)
    /\ UNCHANGED <<now, tables, aliases, emails, deleting, syncData, req,
                   client, lastCall, alloc, runtime, keyring, reader, edit,
                   limiter>>

\* ----------------------------------------------------------- recordChange
\* SyncService.recordChange: the payload is encrypted when data and key are
\* both given, then one createSyncData.  observe: the caller's view of the
\* call (its arguments, whether it raised) is kept in lastCall.
recordChange(col, tabs, devs, log, userId, deviceId, in, t) ==
    LET encryptedData == IF in[4] # Undefined /\ in[5] # Undefined
                         THEN Encrypt(Stringify(in[4]), in[5])
                         ELSE EmptyText
    IN createSyncData(col, tabs, devs, log,
                      [userId |-> userId, deviceId |-> deviceId,
                       dataType |-> in[1], dataId |-> in[2],
                       encryptedData |-> encryptedData, operation |-> in[3]],
                      t)

RecordChange(col, observe, userId, deviceId, in) ==
    /\ Cardinality(DOMAIN syncData) < MaxLog
    /\ LET res == recordChange(col, tables, devices, syncData, userId,
                               deviceId, in, now)
       IN /\ syncData' = res.log
          /\ lastCall' = IF observe
                          THEN [called |-> TRUE, userId |-> userId,
                                deviceId |-> deviceId, in |-> in,
                                before |-> DOMAIN syncData,
                                raised |-> res.raised]
                          ELSE lastCall
    /\ UNCHANGED <<now, tables, aliases, emails, deleting, devices, req,
                   client, alloc, runtime, keyring, reader, edit, limiter>>

\* -------------------------------------------------------------- sync route
\* POST (sync route), up to its first statement on devices: the adapter is
\* bound to the request's engine handle, the user is resolved from the
\* authorization header and the body {deviceId, lastSyncTimestamp} is parsed.
\* A device runs one round at a time; it sends no lastSyncTimestamp, the
\* syncTimestamp of its last round, or one of extra.
SyncPost(r, auth, deviceId, lastSync, extra) ==
    /\ req[r].pc = "idle"
    /\ \A q \in Requests : req[q].pc = "idle" \/ req[q].device # deviceId
    /\ lastSync \in {NoDate, client[deviceId].ret} \cup extra
    /\ req' = [req EXCEPT ![r] =
          IF getAuthenticatedUser(auth) = None
          THEN [IdleReq EXCEPT !.pc = "done", !.device = deviceId,
                               !.status = "Unauthorized"]
          ELSE [IdleReq EXCEPT !.pc = "device", !.user = auth,
                               !.device = deviceId, !.lastSync = lastSync,
                               !.chain = (lastSync = client[deviceId].ret)]]
    /\ UNCHANGED <<now, tables, aliases, emails, deleting, devices, syncData,
                   client, lastCall, alloc, runtime, keyring, reader, edit,
                   limiter>>

\* The device looked up among the devices of every user.
FindDeviceOfAnyUser(devs, userId, deviceId) ==
    \E u \in Users : \E d \in getDevicesByUserId(devs, u) : d.id = deviceId
\* "Verify device belongs to user": devices.find(d => d.id === deviceId) over
\* getDevicesByUserId(user.id).
FindDevice(devs, userId, deviceId) ==
    \E d \in getDevicesByUserId(devs, userId) : d.id = deviceId

SyncCheckDevice(r) ==
    /\ req[r].pc = "device"
    /\ req' = [req EXCEPT ![r] =
          IF FindDevice(devices, req[r].user, req[r].device)
          THEN [@ EXCEPT !.pc = "sync"]
          ELSE [@ EXCEPT !.pc = "done", !.status = "NotFound"]]
    /\ UNCHANGED <<now, tables, aliases, emails, deleting, devices, syncData,
                   client, lastCall, alloc, runtime, keyring, reader, edit,
                   limiter>>

\* SyncService.syncDevice, entry: const syncTimestamp = new Date(), and the
\* log query is sent to the engine.
SyncBegin(r) ==
    /\ req[r].pc = "sync"
    /\ req' = [req EXCEPT ![r] = [@ EXCEPT !.pc = "changes",
                                           !.syncTimestamp = now,
                                           !.logAtFix = DOMAIN syncData]]
    /\ UNCHANGED <<now, tables, aliases, emails, deleting, devices, syncData,
                   client, lastCall, alloc, runtime, keyring, reader, edit,
                   limiter>>

\* lastSyncTimestamp || new Date(0)
EffectiveLastSync(lastSync) == IF lastSync = NoDate THEN Epoch ELSE lastSync

\* The engine executes getSyncDataAfterTimestamp; a failure leaves
\* syncDevice and the route answers 500.
SyncReadChanges(col, r) ==
    /\ req[r].pc = "changes"
    /\ LET res == getSyncDataAfterTimestamp(col, tables, syncData, req[r].user,
                      EffectiveLastSync(req[r].lastSync))
       IN req' = [req EXCEPT ![r] =
             IF res.raised
             THEN [@ EXCEPT !.pc = "done", !.status = "Internal"]
             ELSE [@ EXCEPT !.pc = "aliases", !.changes = res.rows]]
    /\ UNCHANGED <<now, tables, aliases, emails, deleting, devices, syncData,
                   client, lastCall, alloc, runtime, keyring, reader, edit,
                   limiter>>

\* The snapshot cut down to the aliases that the entries of the log window
\* name.
SyncReadAliasesOfWindow(r) ==
    /\ req[r].pc = "aliases"
    /\ req' = [req EXCEPT ![r] =
          [@ EXCEPT !.pc = "update",
                    !.aliases =
                        { x \in getAliasesByUserId(aliases, req[r].user) :
                            \E k \in 1..Len(req[r].changes) :
                                /\ req[r].changes[k].dataType = "alias"
                                /\ req[r].changes[k].dataId = x.id }]]
    /\ UNCHANGED <<now, tables, aliases, emails, deleting, devices, syncData,
                   client, lastCall, alloc, runtime, keyring, reader, edit,
                   limiter>>
\* const aliases = await effectiveDb.getAliasesByUserId(userId)
SyncReadAliases(r) ==
    /\ req[r].pc = "aliases"
    /\ req' = [req EXCEPT ![r] =
          [@ EXCEPT !.pc = "update",
                    !.aliases = getAliasesByUserId(aliases, req[r].user)]]
    /\ UNCHANGED <<now, tables, aliases, emails, deleting, devices, syncData,
                   client, lastCall, alloc, runtime, keyring, reader, edit,
                   limiter>>

\* await effectiveDb.updateDeviceLastSync(deviceId), then the result
\* {aliases, syncTimestamp} is returned.
SyncUpdateDevice(r) ==
    /\ req[r].pc = "update"
    /\ devices' = updateDeviceLastSync(devices, req[r].device, now)
    /\ req' = [req EXCEPT ![r] = [@ EXCEPT !.pc = "done", !.status = "OK"]]
    /\ UNCHANGED <<now, tables, aliases, emails, deleting, syncData, client,
                   lastCall, alloc, runtime, keyring, reader, edit, limiter>>

\* The response reaches the device.  After a successful round the device
\* keeps the returned syncTimestamp for its next round.
SyncRespond(r) ==
    /\ req[r].pc = "done"
    /\ LET d == req[r].device
           c == client[d]
           intact == req[r].lastSync = NoDate \/ (c.chained /\ req[r].chain)
       IN client' =
            IF req[r].status = "OK"
            THEN [client EXCEPT ![d] =
                    [ret |-> req[r].syncTimestamp,
                     chained |-> intact,
                     seen |-> IF ~intact THEN {}
                              ELSE (IF req[r].lastSync = NoDate THEN {} ELSE c.seen)
                                   \cup Ids(req[r].changes),
                     prevLog |-> req[r].logAtFix]]
            ELSE client
    /\ req' = [req EXCEPT ![r] = IdleReq]
    /\ UNCHANGED <<now, tables, aliases, emails, deleting, devices, syncData,
                   lastCall, alloc, runtime, keyring, reader, edit, limiter>>

\* ------------------------------------------------- alias and email adapter
AliasStrings == {"abc123", "xyz789"}
Descriptions == {Undefined, "note"}
ActiveFlags == {Undefined, "true", "false"}

CreateAlias(id, userId, alias, description) ==
    /\ aliases' = createAlias(aliases,
                      [id |-> id, userId |-> userId, alias |-> alias,
                       description |-> description,
                       forwardingEmail |-> "inbox", isActive |-> "true"],
                      now).aliases
    /\ UNCHANGED <<now, tables, emails, deleting, devices, syncData, req,
                   client, lastCall, alloc, runtime, keyring, reader, edit,
                   limiter>>

UpdateAlias(id, description, isActive) ==
    /\ aliases' = updateAlias(aliases, id,
                      [description |-> description, isActive |-> isActive],
                      now).aliases
    /\ UNCHANGED <<now, tables, emails, deleting, devices, syncData, req,
                   client, lastCall, alloc, runtime, keyring, reader, edit,
                   limiter>>

\* DatabaseManager.deleteAlias up to its first await.
DeleteAliasEmails(id) ==
    /\ id \notin deleting
    /\ emails' = deleteAliasEmails(emails, id)
    /\ deleting' = deleting \cup {id}
    /\ UNCHANGED <<now, tables, aliases, devices, syncData, req, client,
                   lastCall, alloc, runtime, keyring, reader, edit, limiter>>

\* deleteAlias removing the log entries of the alias with the alias row.
DeleteAliasRowAndLog(id) ==
    /\ id \in deleting
    /\ aliases' = deleteAliasRow(aliases, emails, id).aliases
    /\ deleting' = deleting \ {id}
    /\ syncData' = [i \in {j \in DOMAIN syncData :
                              ~(syncData[j].data_type = "alias"
                                /\ syncData[j].data_id = id)} |-> syncData[i]]
    /\ UNCHANGED <<now, tables, emails, devices, req, client, lastCall, alloc,
                   runtime, keyring, reader, edit, limiter>>
\* DatabaseManager.deleteAlias from its first await on.
DeleteAliasRow(id) ==
    /\ id \in deleting
    /\ aliases' = deleteAliasRow(aliases, emails, id).aliases
    /\ deleting' = deleting \ {id}
    /\ UNCHANGED <<now, tables, emails, devices, syncData, req, client,
                   lastCall, alloc, runtime, keyring, reader, edit, limiter>>

CreateEmail(id, aliasId) ==
    /\ emails' = createEmail(emails, aliases,
                     [id |-> id, aliasId |-> aliasId, from |-> "sender",
                      to |-> "abc123", subject |-> "subject",
                      content |-> "content"],
                     now).emails
    /\ UNCHANGED <<now, tables, aliases, deleting, devices, syncData, req,
                   client, lastCall, alloc, runtime, keyring, reader, edit,
                   limiter>>

MarkEmailAsRead(id) ==
    /\ emails' = markEmailAsRead(emails, id)
    /\ UNCHANGED <<now, tables, aliases, deleting, devices, syncData, req,
                   client, lastCall, alloc, runtime, keyring, reader, edit,
                   limiter>>

\* --------------------------------------------------------------- getDatabase
\* getDatabase binding an adapter to the engine again: a new DatabaseManager
\* after closeDatabase (its constructor runs initializeTables), or the
\* initializeTablesAsync of a request on the edge.
InitializeTables(col) ==
    /\ tables' = initializeTables(col, tables)
    /\ UNCHANGED <<now, aliases, emails, deleting, devices, syncData, req,
                   client, lastCall, alloc, runtime, keyring, reader, edit,
                   limiter>>

\* -------------------------------------------------------- alias allocation
\* The retry budget of the allocation loop: attempts > 10 gives up.
MaxAttempts == 10
\* The ids crypto.randomUUID() may give a new alias row (the least unused is
\* taken: a fresh id is always left).
AllocIds == 1..(Cardinality(AliasStrings) + 1)

\* POST (create alias), up to the first lookup of its loop: the user is
\* resolved, the body {description?, forwardingEmail} is parsed, the first
\* candidate is generated and attempts becomes 1.
AllocPost(s, auth, description, alias) ==
    /\ alloc[s].pc = "idle"
    /\ alloc' = [alloc EXCEPT ![s] =
          IF getAuthenticatedUser(auth) = None
          THEN [IdleAlloc EXCEPT !.pc = "done", !.status = "Unauthorized"]
          ELSE [IdleAlloc EXCEPT !.pc = "check", !.user = auth,
                                 !.description = description,
                                 !.alias = alias, !.attempts = 1]]
    /\ UNCHANGED <<now, tables, aliases, emails, deleting, devices, syncData,
                   req, client, lastCall, runtime, keyring, reader, edit,
                   limiter>>

\* while ((await db.getAliasesByUserId(user.id)).some(a => a.alias === alias))
Collides(als, userId, alias) ==
    \E a \in getAliasesByUserId(als, userId) : a.alias = alias

\* The lookup of the loop returns.  On a collision the loop body runs again:
\* the next candidate is generated, attempts grows, and past the budget the
\* route answers 500 'Could not generate unique alias'.
AllocCheck(s, next) ==
    /\ alloc[s].pc = "check"
    /\ LET a == alloc[s]
           seen == [a EXCEPT !.clear =
                      a.clear \/ (\A x \in DOMAIN aliases :
                                     aliases[x].alias # a.alias)]
       IN alloc' = [alloc EXCEPT ![s] =
            IF Collides(aliases, a.user, a.alias)
            THEN IF a.attempts + 1 > MaxAttempts
                 THEN [seen EXCEPT !.pc = "done", !.alias = next,
                                   !.attempts = a.attempts + 1,
                                   !.status = "Exhausted"]
                 ELSE [seen EXCEPT !.alias = next,
                                   !.attempts = a.attempts + 1]
            ELSE [seen EXCEPT !.pc = "insert"]]
    /\ UNCHANGED <<now, tables, aliases, emails, deleting, devices, syncData,
                   req, client, lastCall, runtime, keyring, reader, edit,
                   limiter>>

\* await db.createAlias({id: crypto.randomUUID(), userId, alias, description,
\* forwardingEmail, isActive: true}); a failure of the statement is answered
\* 500 'Internal server error'.
AllocInsert(s) ==
    /\ alloc[s].pc = "insert"
    /\ \E id \in AllocIds :
        /\ id \notin DOMAIN aliases
        /\ \A j \in AllocIds : j < id => j \in DOMAIN aliases
        /\ LET res == createAlias(aliases,
                          [id |-> id, userId |-> alloc[s].user,
                           alias |-> alloc[s].alias,
                           description |-> alloc[s].description,
                           forwardingEmail |-> "inbox", isActive |-> "true"],
                          now)
           IN /\ aliases' = res.aliases
              /\ alloc' = [alloc EXCEPT ![s] =
                    [@ EXCEPT !.pc = "done",
                              !.status = IF res.raised THEN "Internal"
                                         ELSE "Created"]]
    /\ UNCHANGED <<now, tables, emails, deleting, devices, syncData, req,
                   client, lastCall, runtime, keyring, reader, edit, limiter>>

\* The response leaves the route.
AllocRespond(s) ==
    /\ alloc[s].pc = "done"
    /\ alloc' = [alloc EXCEPT ![s] = IdleAlloc]
    /\ UNCHANGED <<now, tables, aliases, emails, deleting, devices, syncData,
                   req, client, lastCall, runtime, keyring, reader, edit,
                   limiter>>

\* ---------------------------------------------------------- specifications
DeviceActions(ids) ==
    \E auth \in AuthHeaders : RegisterDevice(auth, "phone", ids)

LogActions(col, observe, inputs) ==
    \E u \in Users, d \in DeviceIds, in \in inputs :
        RecordChange(col, observe, u, d, in)

RoundActions(col, extra) ==
    \/ \E r \in Requests, auth \in AuthHeaders, d \in DeviceIds,
          ls \in StartTime..MaxTime \cup {NoDate} :
          SyncPost(r, auth, d, ls, extra)
    \/ \E r \in Requests : SyncCheckDevice(r)
    \/ \E r \in Requests : SyncBegin(r)
    \/ \E r \in Requests : SyncReadChanges(col, r)
    \/ \E r \in Requests : SyncReadAliases(r)
    \/ \E r \in Requests : SyncUpdateDevice(r)
    \/ \E r \in Requests : SyncRespond(r)

AliasActions(strings) ==
    \/ \E id \in AliasIds, u \in Users, a \in strings, ds \in Descriptions :
          CreateAlias(id, u, a, ds)
    \/ \E id \in AliasIds, ds \in Descriptions, f \in ActiveFlags :
          UpdateAlias(id, ds, f)
    \/ \E id \in AliasIds : DeleteAliasEmails(id)
    \/ \E id \in AliasIds : DeleteAliasRow(id)

EmailActions ==
    \/ \E id \in EmailIds, a \in AliasIds : CreateEmail(id, a)
    \/ \E id \in EmailIds : MarkEmailAsRead(id)

NextWith(col) ==
    \/ Tick
    \/ DeviceActions(DeviceIds)
    \/ LogActions(col, TRUE, RecordInputs)
    \/ RoundActions(col, LastSyncInputs)
    \/ AliasActions(AliasStrings)
    \/ EmailActions

\* The program as written: its statements name the column DataIdColumn.
Init == InitWith(DataIdColumn)
Spec == Init /\ [][NextWith(DataIdColumn)]_vars

\* The same program with the column named as scripts/init-d1.js names it.
InitConsistent == InitWith(SchemaDataIdColumn)
SpecConsistent ==
    InitConsistent /\ [][NextWith(SchemaDataIdColumn)]_vars

\* Sync rounds of one device over a log that recordChange can write.
SpecRounds ==
    InitConsistent /\
    [][
      \/ Tick
      \/ DeviceActions({1})
      \/ LogActions(SchemaDataIdColumn, FALSE,
         {<<"alias", 1, "create", "payload", "key">>})
      \/ RoundActions(SchemaDataIdColumn, {})
    ]_vars

\* Sync rounds of one device next to the alias statements, as written.
SpecSnap ==
    Init /\
    [][
      \/ Tick
      \/ DeviceActions({1})
      \/ RoundActions(DataIdColumn, LastSyncInputs)
      \/ AliasActions({"abc123"})
    ]_vars

\* Sync rounds of the devices of both users, as written.
SpecDev ==
    Init /\
    [][
      \/ Tick
      \/ DeviceActions(DeviceIds)
      \/ RoundActions(DataIdColumn, LastSyncInputs)
    ]_vars

\* recordChange calls as written, each call kept in lastCall.
SpecRec ==
    Init /\
    [][
      \/ Tick
      \/ DeviceActions(DeviceIds)
      \/ LogActions(DataIdColumn, TRUE, RecordInputs)
    ]_vars

\* Every statement of the adapter over a log that recordChange can write, at
\* one instant of the clock.
SpecStore ==
    InitConsistent /\
    [][
      \/ DeviceActions({1})
      \/ LogActions(SchemaDataIdColumn, FALSE,
         {<<"alias", 1, "delete", Undefined, Undefined>>})
      \/ RoundActions(SchemaDataIdColumn, {})
      \/ AliasActions({"abc123"})
      \/ EmailActions
    ]_vars

AllocActions ==
    \/ \E s \in AllocSlots, auth \in AuthHeaders, ds \in Descriptions,
          a \in AliasStrings : AllocPost(s, auth, ds, a)
    \/ \E s \in AllocSlots, a \in AliasStrings : AllocCheck(s, a)
    \/ \E s \in AllocSlots : AllocInsert(s)
    \/ \E s \in AllocSlots : AllocRespond(s)

\* Concurrent alias allocation requests of both users.
SpecAlloc == Init /\ [][AllocActions]_vars

\* The alias and email ids of the statements on two aliases and two emails.
MailAliasIds == 1..(MaxAliases + 1)
MailEmailIds == 1..(MaxEmails + 1)

MailActions ==
    \/ \E id \in MailAliasIds, u \in Users, a \in AliasStrings,
          ds \in Descriptions : CreateAlias(id, u, a, ds)
    \/ \E id \in MailAliasIds, ds \in Descriptions, f \in ActiveFlags :
          UpdateAlias(id, ds, f)
    \/ \E id \in MailAliasIds : DeleteAliasEmails(id)
    \/ \E id \in MailAliasIds : DeleteAliasRow(id)
    \/ \E id \in MailEmailIds, a \in MailAliasIds : CreateEmail(id, a)
    \/ \E id \in MailEmailIds : MarkEmailAsRead(id)

\* The alias and email statements of the adapter, at one instant of the
\* clock.
SpecMail == Init /\ [][MailActions]_vars

\* The schema list run again between the alias and email statements, as
\* written.
SpecSchema ==
    Init /\
    [][
      \/ Tick
      \/ InitializeTables(DataIdColumn)
      \/ AliasActions(AliasStrings)
      \/ EmailActions
    ]_vars

\* ------------------------------------------------- adapter lifecycle steps
\* A handler calls getDatabase(context.env.DB).  The call runs to its first
\* await: the manager is constructed (a local one runs initializeTables) and
\* the promise of the adapter is returned.  A handler that awaits the call
\* waits for the promise; the login handler goes on with the promise itself
\* and calls initializeTablesAsync on it, which is no function of a promise:
\* a TypeError, while the manager of the call is still being initialized.
GetDatabase(c, route, handle) ==
    /\ calls[c].pc = "idle"
    /\ Len(managers) < MaxManagers
    /\ LET res == getDatabase(dbInstance, managers, handle)
       IN /\ dbInstance' = res.dbInstance
          /\ managers' = res.managers
          /\ tables' = IF handle = None /\ Len(res.managers) > Len(managers)
                       THEN initializeTables(DataIdColumn, tables)
                       ELSE tables
          /\ calls' = [calls EXCEPT ![c] =
                [pc |-> IF Awaited(route) THEN "await" ELSE "done",
                 route |-> route,
                 db |-> res.manager,
                 used |-> IF Awaited(route) THEN None ELSE "promise",
                 outcome |-> IF Awaited(route) THEN None ELSE "TypeError"]]
    /\ UNCHANGED <<now, aliases, emails, deleting, devices, syncData, req,
                   client, lastCall, alloc, keyring, reader, edit,
                   syncServiceInstance, limiter>>

\* await manager.initializeTablesAsync() of a getDatabase call completes.
InitializeTablesAsync(m) ==
    /\ m \in DOMAIN managers
    /\ managers[m].state = "initializing"
    /\ managers' = [managers EXCEPT ![m].state = "ready"]
    /\ tables' = initializeTables(DataIdColumn, tables)
    /\ UNCHANGED <<now, aliases, emails, deleting, devices, syncData, req,
                   client, lastCall, alloc, dbInstance, calls, keyring,
                   reader, edit, syncServiceInstance, limiter>>

\* const db = await getDatabase(...): the handler goes on once the promise
\* is resolved, and issues its first query against the adapter, which the
\* engine of the adapter may fail; a closed local database raises a
\* TypeError.  What leaves the dispatcher reaches the handler.
FirstQuery(c, method, engine) ==
    /\ calls[c].pc = "await"
    /\ managers[calls[c].db].state = "ready"
    /\ LET mgr == managers[calls[c].db]
       IN /\ engine \in (IF mgr.handle = None THEN LocalOutcomes
                         ELSE EdgeOutcomes)
          /\ mgr.closed > 0 => engine = "TypeError"
          /\ calls' = [calls EXCEPT
                ![c].pc = "done",
                ![c].used = "adapter",
                ![c].outcome =
                    LET res == _execute(mgr, method, engine)
                    IN IF res.raised THEN res.error ELSE "ok"]
    /\ UNCHANGED <<now, tables, aliases, emails, deleting, devices, syncData,
                   req, client, lastCall, alloc, dbInstance, managers,
                   keyring, reader, edit, syncServiceInstance, limiter>>

\* The handler answers; the adapter it held is dropped.
Respond(c) ==
    /\ calls[c].pc = "done"
    /\ calls' = [calls EXCEPT ![c] = IdleCall]
    /\ UNCHANGED <<now, tables, aliases, emails, deleting, devices, syncData,
                   req, client, lastCall, alloc, dbInstance, managers,
                   keyring, reader, edit, syncServiceInstance, limiter>>

\* closeDatabase() at a shutdown of the local process.
CloseDatabase ==
    /\ LET res == closeDatabase(dbInstance, managers)
       IN /\ dbInstance' = res.dbInstance
          /\ managers' = res.managers
    /\ UNCHANGED <<now, tables, aliases, emails, deleting, devices, syncData,
                   req, client, lastCall, alloc, calls, keyring, reader, edit,
                   syncServiceInstance, limiter>>

LifeActions ==
    \/ \E c \in Callers, route \in Routes, handle \in Handles \cup {None} :
          GetDatabase(c, route, handle)
    \/ \E m \in 1..MaxManagers : InitializeTablesAsync(m)
    \/ \E c \in Callers, method \in Methods,
          engine \in LocalOutcomes \cup EdgeOutcomes :
          FirstQuery(c, method, engine)
    \/ \E c \in Callers : Respond(c)
    \/ CloseDatabase

\* The adapters of a process and the handlers that obtain them.
SpecLife == Init /\ [][LifeActions]_vars

\* ------------------------------------------------------ master key steps
\* The admin script creates the row of one admin: generateMasterKey,
\* encryptMasterKey, INSERT INTO users (email is UNIQUE).
CreateAdminUser(email, masterKey, salt, iv) ==
    /\ email \notin DOMAIN users
    /\ users' = users @@ (email :>
                  [encryption_key |-> encryptMasterKey(masterKey, salt, iv),
                   master_key_salt |-> salt,
                   is_admin |-> 1])
    /\ generated' = generated @@ (email :> masterKey)
    /\ UNCHANGED <<now, tables, aliases, emails, deleting, devices, syncData,
                   req, client, lastCall, alloc, runtime, session, reader,
                   edit, completed, limiter>>

\* The sync route unwraps the key of the authenticated user:
\* MasterKeyManager.decryptMasterKey(user.encryptionKey, user.masterKeySalt).
DecryptMasterKey(email) ==
    /\ email \in DOMAIN users
    /\ session' = [session EXCEPT ![email] =
                      decryptMasterKey(users[email].encryption_key,
                                       users[email].master_key_salt)]
    /\ UNCHANGED <<now, tables, aliases, emails, deleting, devices, syncData,
                   req, client, lastCall, alloc, runtime, users, generated,
                   reader, edit, completed, limiter>>

\* The request ends and drops the key.
DropMasterKey(email) ==
    /\ session[email] # None
    /\ session' = [session EXCEPT ![email] = None]
    /\ UNCHANGED <<now, tables, aliases, emails, deleting, devices, syncData,
                   req, client, lastCall, alloc, runtime, users, generated,
                   reader, edit, completed, limiter>>

KeyActions ==
    \/ \E email \in AdminEmails, masterKey \in MasterKeys, salt \in Salts,
          iv \in Ivs : CreateAdminUser(email, masterKey, salt, iv)
    \/ \E email \in AdminEmails : DecryptMasterKey(email)
    \/ \E email \in AdminEmails : DropMasterKey(email)

\* The master keys of the admins from their creation on.
SpecKeys == Init /\ [][KeyActions]_vars

\* ------------------------------------------------ decrypting a sync result
\* A caller receives the log entries of a sync result.
ReceiveBatch(entries) ==
    /\ batch = <<>>
    /\ batch' = entries
    /\ decrypted' = [i \in DOMAIN entries |-> Pending]
    /\ UNCHANGED <<now, tables, aliases, emails, deleting, devices, syncData,
                   req, client, lastCall, alloc, runtime, keyring, edit,
                   limiter>>

\* The caller decrypts one entry with the key it holds: await
\* syncService.decryptSyncData(entry, key).  An error leaving the call would
\* end the caller's pass over the result.
DecryptEntry(i, key) ==
    /\ i \in DOMAIN batch
    /\ decrypted[i] = Pending
    /\ LET res == decryptSyncData(batch[i], key)
       IN decrypted' =
             IF res.raised
             THEN [j \in DOMAIN batch |->
                      IF j = i THEN res
                      ELSE IF decrypted[j] = Pending THEN Aborted
                      ELSE decrypted[j]]
             ELSE [decrypted EXCEPT ![i] = res]
    /\ UNCHANGED <<now, tables, aliases, emails, deleting, devices, syncData,
                   req, client, lastCall, alloc, runtime, keyring, batch,
                   edit, limiter>>

\* The caller is done with the result.
DropBatch ==
    /\ batch # <<>>
    /\ \A i \in DOMAIN batch : decrypted[i] # Pending
    /\ batch' = <<>>
    /\ decrypted' = <<>>
    /\ UNCHANGED <<now, tables, aliases, emails, deleting, devices, syncData,
                   req, client, lastCall, alloc, runtime, keyring, edit,
                   limiter>>

ReaderActions ==
    \/ \E n \in 1..MaxBatch :
          \E cts \in [1..n -> Ciphertexts] :
              ReceiveBatch([i \in 1..n |-> [id |-> i, encryptedData |-> cts[i]]])
    \/ \E i \in 1..MaxBatch, key \in MasterKeys : DecryptEntry(i, key)
    \/ DropBatch

\* The entries of sync results decrypted one by one, in any order, each
\* with any key.
SpecReader == Init /\ [][ReaderActions]_vars

\* --------------------------------------------- alias update / delete route
\* PUT or DELETE up to the ownership lookup: the user is resolved (401
\* 'Unauthorized' if there is none) and the body of a PUT is parsed.
EditRequest(s, kind, auth, id, updates) ==
    /\ edit[s].pc = "idle"
    /\ edit' = [edit EXCEPT ![s] =
          IF getAuthenticatedUser(auth) = None
          THEN [IdleEdit EXCEPT !.pc = "done", !.status = "Unauthorized"]
          ELSE [IdleEdit EXCEPT !.pc = "lookup", !.kind = kind,
                                !.user = auth, !.id = id,
                                !.updates = updates]]
    /\ UNCHANGED <<now, tables, aliases, emails, deleting, devices, syncData,
                   req, client, lastCall, alloc, runtime, keyring, reader,
                   limiter>>

\* The lookup returns: 404 'Alias not found' unless the user owns the alias.
EditLookup(s) ==
    /\ edit[s].pc = "lookup"
    /\ edit' = [edit EXCEPT ![s] =
          IF FindAlias(aliases, edit[s].user, edit[s].id)
          THEN [@ EXCEPT !.pc = "act"]
          ELSE [@ EXCEPT !.pc = "done", !.status = "NotFound"]]
    /\ UNCHANGED <<now, tables, aliases, emails, deleting, devices, syncData,
                   req, client, lastCall, alloc, runtime, keyring, reader,
                   limiter>>

\* PUT: await db.updateAlias(params.id, updates); a failure of the statement
\* is answered 500 'Internal server error'.
EditUpdate(s) ==
    /\ edit[s].pc = "act"
    /\ edit[s].kind = "PUT"
    /\ LET res == updateAlias(aliases, edit[s].id, edit[s].updates, now)
       IN /\ aliases' = res.aliases
          /\ edit' = [edit EXCEPT ![s] =
                [@ EXCEPT !.pc = "done",
                          !.status = IF res.raised THEN "Internal" ELSE "OK"]]
    /\ UNCHANGED <<now, tables, emails, deleting, devices, syncData, req,
                   client, lastCall, alloc, runtime, keyring, reader,
                   limiter>>

\* DELETE: db.deleteAlias(params.id), its first statement.
EditDeleteEmails(s) ==
    /\ edit[s].pc = "act"
    /\ edit[s].kind = "DELETE"
    /\ emails' = deleteAliasEmails(emails, edit[s].id)
    /\ edit' = [edit EXCEPT ![s] =
          [@ EXCEPT !.pc = "row",
                    !.removed = DOMAIN emails \ DOMAIN emails']]
    /\ UNCHANGED <<now, tables, aliases, deleting, devices, syncData, req,
                   client, lastCall, alloc, runtime, keyring, reader,
                   limiter>>

\* DELETE: db.deleteAlias(params.id), its second statement; a failure is
\* answered 500 'Internal server error'.
EditDeleteRow(s) ==
    /\ edit[s].pc = "row"
    /\ LET res == deleteAliasRow(aliases, emails, edit[s].id)
       IN /\ aliases' = res.aliases
          /\ edit' = [edit EXCEPT ![s] =
                [@ EXCEPT !.pc = "done",
                          !.status = IF res.raised THEN "Internal" ELSE "OK"]]
    /\ UNCHANGED <<now, tables, emails, deleting, devices, syncData, req,
                   client, lastCall, alloc, runtime, keyring, reader,
                   limiter>>

\* The response leaves the route.
EditRespond(s) ==
    /\ edit[s].pc = "done"
    /\ edit' = [edit EXCEPT ![s] = IdleEdit]
    /\ UNCHANGED <<now, tables, aliases, emails, deleting, devices, syncData,
                   req, client, lastCall, alloc, runtime, keyring, reader,
                   limiter>>

\* The PUT and DELETE requests of both users, while aliases are created
\* (crypto.randomUUID gives an id that no request in flight names) and mail
\* arrives.
EditActions ==
    \/ \E s \in EditSlots, auth \in AuthHeaders, id \in MailAliasIds :
          \/ EditRequest(s, "DELETE", auth, id, IdleEdit.updates)
          \/ \E ds \in Descriptions, f \in ActiveFlags :
                EditRequest(s, "PUT", auth, id,
                            [description |-> ds, isActive |-> f])
    \/ \E s \in EditSlots : EditLookup(s)
    \/ \E s \in EditSlots : EditUpdate(s)
    \/ \E s \in EditSlots : EditDeleteEmails(s)
    \/ \E s \in EditSlots : EditDeleteRow(s)
    \/ \E s \in EditSlots : EditRespond(s)
    \/ \E id \in MailAliasIds, u \in Users, a \in AliasStrings :
          /\ \A s \in EditSlots : edit[s].id # id
          /\ CreateAlias(id, u, a, "note")
    \/ \E id \in MailEmailIds, a \in MailAliasIds : CreateEmail(id, a)

SpecEdit == Init /\ [][EditActions]_vars

\* ------------------------------------------------- edge-bound sync routes
\* const syncService = getSyncService() of the register-device and sync
\* handlers, reached once the handler has its adapter and its user.
GetSyncService(c, opens) ==
    /\ calls[c].pc = "done"
    /\ calls[c].route \in {"register-device", "sync"}
    /\ calls[c].used = "adapter"
    /\ calls[c].outcome = "ok"
    /\ Len(managers) < MaxManagers
    /\ LET res == getSyncService(syncServiceInstance, dbInstance, managers,
                                 opens)
       IN /\ syncServiceInstance' = res.syncServiceInstance
          /\ dbInstance' = res.dbInstance
          /\ managers' = res.managers
          /\ tables' = IF Len(res.managers) > Len(managers)
                       THEN initializeTables(DataIdColumn, tables)
                       ELSE tables
    /\ calls' = [calls EXCEPT ![c].used = "service"]
    /\ UNCHANGED <<now, aliases, emails, deleting, devices, syncData, req,
                   client, lastCall, alloc, keyring, reader, edit, limiter>>

\* Device registration and sync requests, every one bound to an edge handle.
EdgeActions ==
    \/ \E c \in Callers, route \in {"register-device", "sync"},
          handle \in Handles : GetDatabase(c, route, handle)
    \/ \E m \in 1..MaxManagers : InitializeTablesAsync(m)
    \/ \E c \in Callers, method \in Methods, engine \in EdgeOutcomes :
          FirstQuery(c, method, engine)
    \/ \E c \in Callers, opens \in BOOLEAN : GetSyncService(c, opens)
    \/ \E c \in Callers : Respond(c)

SpecEdge == Init /\ [][EdgeActions]_vars

\* ------------------------------------------------------- admin script runs
\* One run of scripts/init-admin-users.js, from start to exit.
RunInitAdminUsers(draw, ok) ==
    /\ completed < MaxRuns
    /\ LET res == initAdminUsers(users, generated, draw, ok)
       IN /\ users' = res.users
          /\ generated' = res.generated
    /\ completed' = completed + 1
    /\ UNCHANGED <<now, tables, aliases, emails, deleting, devices, syncData,
                   req, client, lastCall, alloc, runtime, session, reader,
                   edit, limiter>>

\* The admin script run again and again, and the keys it stored unwrapped.
SpecScript ==
    Init /\
    [][
      \/ \E draw \in [AdminEmails ->
                       [masterKey : MasterKeys, salt : Salts, iv : Ivs]],
            ok \in [AdminEmails -> BOOLEAN] : RunInitAdminUsers(draw, ok)
      \/ \E email \in AdminEmails : DecryptMasterKey(email)
      \/ \E email \in AdminEmails : DropMasterKey(email)
    ]_vars

\* ------------------------------------------------------ rate limiter calls
IsRateLimited(identifier) ==
    /\ LET res == isRateLimited(requests, identifier, now)
       IN /\ requests' = res.requests
          /\ verdict' = [call |-> "isRateLimited", identifier |-> identifier,
                         value |-> res.limited]
    /\ UNCHANGED <<now, tables, aliases, emails, deleting, devices, syncData,
                   req, client, lastCall, alloc, runtime, keyring, reader,
                   edit>>

GetRemainingRequests(identifier) ==
    /\ LET res == getRemainingRequests(requests, identifier, now)
       IN /\ requests' = res.requests
          /\ verdict' = [call |-> "getRemainingRequests",
                         identifier |-> identifier, value |-> res.remaining]
    /\ UNCHANGED <<now, tables, aliases, emails, deleting, devices, syncData,
                   req, client, lastCall, alloc, runtime, keyring, reader,
                   edit>>

\* The calls of two identifiers on one limiter while the clock goes on.
SpecLimit ==
    Init /\
    [][
      \/ Tick
      \/ \E identifier \in {"ip1", "ip2"} : IsRateLimited(identifier)
      \/ \E identifier \in {"ip1", "ip2"} : GetRemainingRequests(identifier)
    ]_vars

\* -------------------------------------------------------------- properties
\* The log rows of a user.
UserRows(log, userId) == { i \in DOMAIN log : log[i].user_id = userId }

\* A round whose lastSyncTimestamp continues the device's chain of rounds:
\* none on the first round, the previous syncTimestamp on every later one.
ChainIntact(r) ==
    \/ req[r].lastSync = NoDate
    \/ (client[req[r].device].chained /\ req[r].chain)

\* The log rows in the windows of the chain's rounds, the present one included.
WindowsOfChain(r) ==
    (IF req[r].lastSync = NoDate THEN {} ELSE client[req[r].device].seen)
        \cup Ids(req[r].changes)

C4_SecondWindowEmpty ==
    \A r \in Requests :
        ( /\ req[r].pc = "aliases"
          /\ req[r].lastSync # NoDate
          /\ req[r].chain
          /\ UserRows(syncData, req[r].user)
                \subseteq client[req[r].device].prevLog )
        => req[r].changes = <<>>

C4_Witness ==
    \E r \in Requests :
        /\ req[r].pc = "aliases"
        /\ req[r].lastSync # NoDate
        /\ req[r].chain
        /\ UserRows(syncData, req[r].user) # {}
        /\ UserRows(syncData, req[r].user) \subseteq client[req[r].device].prevLog
        /\ client[req[r].device].seen # {}
        /\ req[r].changes = <<>>

\* C8: every recordChange call for a registered device of a user appends
\* exactly one entry with the given user, device, data type, entity id and
\* operation, its ciphertext that of the payload when payload and key are
\* both given and empty otherwise, and a full log read of the user returns it.
C8_RecordChangeAppendsOne ==
    (lastCall.called /\ lastCall.deviceId \in DOMAIN devices)
    => /\ ~lastCall.raised
       /\ \E n \in DOMAIN syncData :
            /\ DOMAIN syncData \ lastCall.before = {n}
            /\ syncData[n].user_id = lastCall.userId
            /\ syncData[n].device_id = lastCall.deviceId
            /\ syncData[n].data_type = lastCall.in[1]
            /\ syncData[n].data_id = lastCall.in[2]
            /\ syncData[n].operation = lastCall.in[3]
            /\ syncData[n].encrypted_data =
                  (IF lastCall.in[4] # Undefined /\ lastCall.in[5] # Undefined
                   THEN Encrypt(Stringify(lastCall.in[4]), lastCall.in[5])
                   ELSE EmptyText)
            /\ LET read == getSyncDataAfterTimestamp(DataIdColumn, tables,
                               syncData, lastCall.userId, Epoch)
               IN ~read.raised /\ n \in Ids(read.rows)

\* C5: the alias snapshot of a round is exactly the alias rows stored with
\* the user's id when the round reads them, field by field, whatever the log
\* holds and whatever lastSyncTimestamp was passed; it holds no alias of
\* another user.
C5_SnapshotIsAliasTable ==
    [][ \A r \in Requests :
          (req[r].pc = "aliases" /\ req'[r].pc = "update")
          => LET snap == req'[r].aliases
                 own == { a \in DOMAIN aliases :
                            aliases[a].user_id = req[r].user }
             IN /\ { x.id : x \in snap } = own
                /\ Cardinality(snap) = Cardinality(own)
                /\ \A x \in snap :
                      /\ x.userId = req[r].user
                      /\ x.alias = aliases[x.id].alias
                      /\ x.description = aliases[x.id].description
                      /\ x.forwardingEmail = aliases[x.id].forwarding_email
                      /\ x.isActive = (aliases[x.id].is_active = 1) ]_vars

C5_Witness ==
    \E r \in Requests :
        /\ req[r].pc = "update"
        /\ req[r].lastSync = MaxTime
        /\ req[r].changes = <<>>
        /\ \E x \in req[r].aliases :
              x.userId = req[r].user /\ x.id \in DOMAIN aliases /\ ~x.isActive

C7_LogAppendOnly ==
    [][ \A i \in DOMAIN syncData :
          i \in DOMAIN syncData' /\ syncData'[i] = syncData[i] ]_vars

C7_Witness ==
    /\ \E i \in DOMAIN syncData, j \in DOMAIN syncData :
          i # j /\ syncData[i].data_type = "alias" /\ syncData[i].data_id = 1
    /\ 1 \in deleting
    /\ aliases = <<>>
    /\ \E d \in DOMAIN devices : client[d].ret # NoDate

\* C9: the step that completes a round sets the last_sync of the round's
\* device to the engine's current time and leaves the row of every other
\* device as it was; no step moves the last_sync of a device back.
C9_LastSyncIsCurrentTime ==
    [][ /\ \A r \in Requests :
              (req[r].pc = "update" /\ req'[r].pc = "done")
              => /\ req'[r].status = "OK"
                 /\ devices'[req[r].device].last_sync
                        = <<DayOf(now), Space, SecOf(now)>>
                 /\ \A e \in DOMAIN devices \ {req[r].device} :
                        devices'[e] = devices[e]
        /\ \A d \in DOMAIN devices :
              /\ d \in DOMAIN devices'
              /\ ~TextLess(devices'[d].last_sync, devices[d].last_sync) ]_vars

C9_Witness ==
    \E r \in Requests :
        /\ req[r].pc = "done"
        /\ req[r].status = "OK"
        /\ client[req[r].device].ret # NoDate
        /\ devices[req[r].device].last_sync = CurrentTimestamp(now)
        /\ \E e \in DOMAIN devices :
              TextLess(devices[e].last_sync, devices[req[r].device].last_sync)

\* C10: a sync request whose device id names no device of the authenticated
\* user is answered NotFound: it reads no snapshot, fixes no syncTimestamp
\* and changes no devices row; a request for a device of the user goes on to
\* the round.
C10_ForeignDeviceNotFound ==
    [][ \A r \in Requests :
          LET owned == /\ req[r].device \in DOMAIN devices
                       /\ devices[req[r].device].user_id = req[r].user
          IN /\ (req[r].pc = "device" /\ req'[r].pc # "device")
                => /\ devices' = devices
                   /\ IF owned THEN req'[r].pc = "sync"
                      ELSE /\ req'[r].pc = "done"
                           /\ req'[r].status = "NotFound"
                           /\ req'[r].aliases = {}
                           /\ req'[r].syncTimestamp = NoDate
             /\ (req[r].status = "NotFound" /\ req'[r] # req[r])
                => /\ req'[r] = IdleReq
                   /\ devices' = devices
                   /\ client' = client ]_vars

C10_Witness ==
    \E r \in Requests :
        /\ req[r].pc = "done"
        /\ req[r].status = "NotFound"
        /\ req[r].device \in DOMAIN devices
        /\ devices[req[r].device].user_id # req[r].user
        /\ req[r].aliases = {}

\* C11: no two stored alias rows have the same alias string, whatever the
\* interleaving of the allocation requests of one user or of several.
C11_AliasStringsUnique ==
    \A a \in DOMAIN aliases : \A b \in DOMAIN aliases :
        a # b => aliases[a].alias # aliases[b].alias

C11_Witness ==
    /\ \E a \in DOMAIN aliases : \E b \in DOMAIN aliases :
          aliases[a].user_id # aliases[b].user_id
    /\ \E s \in AllocSlots : \E t \in AllocSlots :
          /\ alloc[s].status = "Created"
          /\ alloc[t].status = "Internal"
          /\ alloc[t].description # Undefined
          /\ alloc[s].alias = alloc[t].alias

\* C12: an allocation looks up at most 10 candidates; when it ends, it has
\* created exactly one alias row if one of its candidates was the alias of no
\* stored row, and otherwise it has failed as exhausted and created no row.
C12_AllocationWithinBudget ==
    [][ \A s \in AllocSlots :
          /\ alloc[s].pc = "check" => alloc[s].attempts <= MaxAttempts
          /\ (alloc[s].pc \in {"check", "insert"} /\ alloc'[s].pc = "done")
             => IF alloc'[s].clear
                THEN /\ alloc'[s].status = "Created"
                     /\ Cardinality(DOMAIN aliases')
                           = Cardinality(DOMAIN aliases) + 1
                ELSE /\ alloc'[s].status = "Exhausted"
                     /\ aliases' = aliases ]_vars

\* C13: a candidate equal to the alias of a stored row of any user is found
\* by the lookup: the allocation goes on to another candidate (or gives up as
\* exhausted) and never to the insertion.
C13_CollisionCheckIsGlobal ==
    [][ \A s \in AllocSlots :
          ( /\ alloc[s].pc = "check"
            /\ alloc'[s] # alloc[s]
            /\ \E x \in DOMAIN aliases : aliases[x].alias = alloc[s].alias )
          => /\ alloc'[s].pc \in {"check", "done"}
             /\ alloc'[s].pc = "done" => alloc'[s].status = "Exhausted" ]_vars

\* C14: the alias string, forwarding address, owning user and creation time
\* of a stored alias row never change: no step, and so no sequence of
\* updateAlias calls, leaves a row in place with another value of them.
C14_AliasIdentityImmutable ==
    [][ \A a \in DOMAIN aliases :
          a \in DOMAIN aliases'
          => /\ aliases'[a].alias = aliases[a].alias
             /\ aliases'[a].forwarding_email = aliases[a].forwarding_email
             /\ aliases'[a].user_id = aliases[a].user_id
             /\ aliases'[a].created_at = aliases[a].created_at ]_vars

C14_Witness ==
    \E a \in DOMAIN aliases : \E b \in DOMAIN aliases :
        /\ a # b
        /\ aliases[a].is_active = 0
        /\ aliases[a].alias = "abc123"
        /\ aliases[a].forwarding_email = "inbox"

\* C15: an updateAlias that is given one of description and isActive only
\* leaves the other field of the alias at its value, and leaves every other
\* alias row as it was.
C15_UpdateIsPartial ==
    [][ \A id \in MailAliasIds : \A ds \in Descriptions : \A f \in ActiveFlags :
          ( /\ UpdateAlias(id, ds, f)
            /\ id \in DOMAIN aliases
            /\ (ds = Undefined) # (f = Undefined) )
          => /\ f = Undefined
                => aliases'[id].is_active = aliases[id].is_active
             /\ ds = Undefined
                => aliases'[id].description = aliases[id].description
             /\ \A b \in DOMAIN aliases \ {id} :
                   b \in DOMAIN aliases' /\ aliases'[b] = aliases[b] ]_vars

C17_EmailsReferenceAliases ==
    \A m \in DOMAIN emails : emails[m].alias_id \in DOMAIN aliases

C17_Witness ==
    \E id \in deleting :
        /\ id \in DOMAIN aliases
        /\ \E m \in DOMAIN emails : emails[m].alias_id = id

\* C18: the read flag of an email never goes back: an email that is read
\* before a step and still stored after it is read after it.
C18_ReadFlagMonotone ==
    [][ \A m \in DOMAIN emails :
          (m \in DOMAIN emails' /\ emails[m].is_read = 1)
          => emails'[m].is_read = 1 ]_vars

C18_Witness ==
    \E m \in DOMAIN emails : \E n \in DOMAIN emails :
        emails[m].is_read = 1 /\ emails[n].is_read = 0

\* C19: createEmail stores the email under the alias id it is given, unread;
\* after markEmailAsRead(id) getEmailsByAliasId of the email's alias reports
\* it read, and the statement changes the flag of no other email.
C19_CreateThenMarkRead ==
    [][ \A m \in MailEmailIds :
          /\ \A a \in MailAliasIds :
                (CreateEmail(m, a) /\ m \notin DOMAIN emails
                    /\ m \in DOMAIN emails')
                => /\ emails'[m].alias_id = a
                   /\ emails'[m].is_read = 0
                   /\ LET rows == getEmailsByAliasId(emails', a)
                      IN \E k \in 1..Len(rows) :
                            rows[k].id = m /\ ~rows[k].isRead
          /\ (MarkEmailAsRead(m) /\ m \in DOMAIN emails)
             => /\ DOMAIN emails' = DOMAIN emails
                /\ LET rows == getEmailsByAliasId(emails', emails[m].alias_id)
                   IN \E k \in 1..Len(rows) : rows[k].id = m /\ rows[k].isRead
                /\ \A n \in DOMAIN emails \ {m} :
                      emails'[n].is_read = emails[n].is_read ]_vars

C19_Witness ==
    \E a \in DOMAIN aliases :
        LET rows == getEmailsByAliasId(emails, a)
        IN /\ Len(rows) = 2
           /\ rows[1].isRead
           /\ ~rows[2].isRead

\* C20: schema initialization is idempotent.  In every state of an engine
\* the adapter has initialized, running the list again lets no error out and
\* gives the tables, columns and indexes the engine already has; and so does
\* a second run after a first on any engine the adapter may be bound to.
C20_InitializationIdempotent ==
    /\ RunSchemas(tables, Schemas(DataIdColumn))
          = [raised |-> FALSE, tables |-> tables]
    /\ \A start \in StartSchemas :
          LET first == RunSchemas(start, Schemas(DataIdColumn))
          IN /\ ~first.raised
             /\ RunSchemas(first.tables, Schemas(DataIdColumn))
                   = [raised |-> FALSE, tables |-> first.tables]

C20_Witness ==
    /\ aliases # <<>>
    /\ emails # <<>>
    /\ "users.is_admin" \in tables
    /\ "idx_devices_user_id" \in tables
    /\ "sync_data" \notin tables


\* C21: the entries of the DDL list are applied independently.  From every
\* schema an engine may start with, no error leaves the initialization, and
\* the entries after a failing one have taken effect: the four base tables, the two migrated columns
\* and the indexes of the existing tables are there afterwards, although the
\* ALTER statements fail on a fresh engine and the sync_data statement fails
\* on every engine.
C21_EntriesAppliedIndependently ==
    /\ BaseTables \subseteq tables
    /\ \A start \in StartSchemas :
          LET res == RunSchemas(start, Schemas(DataIdColumn))
          IN /\ ~res.raised
             /\ BaseTables \cup UsersColumns \subseteq res.tables
             /\ \A i \in 1..Len(Indexes) :
                   Indexes[i][2] \in res.tables => Indexes[i][1] \in res.tables

\* An engine the adapter initialized from nothing: the ALTER entries and the
\* sync_data entry failed, the entries after them took effect.
C21_Witness ==
    /\ Exec({"users"} \cup UsersColumns, Schemas(DataIdColumn)[2]).failed
    /\ Exec(tables, Schemas(DataIdColumn)[7]).failed
    /\ "sync_data" \notin tables
    /\ {"email_aliases", "emails", "devices"} \subseteq tables
    /\ "idx_emails_alias_id" \in tables
    /\ aliases # <<>>


\* C22: the local adapter is a singleton.  At any time at most one local
\* manager is open and it is the stored instance; no manager is closed more
\* than once; a getDatabase() call without a handle made while an instance
\* is stored constructs nothing and yields that instance, whichever caller
\* makes it; closeDatabase closes the stored instance once and forgets it,
\* and the next getDatabase() constructs a new manager.
C22_LocalSingleton ==
    /\ [](/\ \A m \in DOMAIN managers :
                /\ managers[m].closed <= 1
                /\ (managers[m].handle = None /\ managers[m].closed = 0)
                       => dbInstance = m
          /\ dbInstance # NoManager =>
                /\ dbInstance \in DOMAIN managers
                /\ managers[dbInstance].handle = None
                /\ managers[dbInstance].closed = 0)
    /\ [][ /\ \A c \in Callers, route \in Routes :
                GetDatabase(c, route, None) =>
                    /\ calls'[c].db = dbInstance'
                    /\ dbInstance # NoManager =>
                          /\ dbInstance' = dbInstance
                          /\ managers' = managers
                    /\ dbInstance = NoManager =>
                          /\ dbInstance' \notin DOMAIN managers
                          /\ managers'[dbInstance'].closed = 0
           /\ (CloseDatabase /\ dbInstance # NoManager) =>
                /\ dbInstance' = NoManager
                /\ managers'[dbInstance].closed = 1 ]_vars

\* Two callers hold the same open local adapter, the second manager the
\* process constructed, after the first was closed.
C22_Witness ==
    /\ dbInstance = 2
    /\ Len(managers) >= 2
    /\ managers[1].handle = None
    /\ managers[1].closed = 1
    /\ calls["c1"].pc = "await"
    /\ calls["c2"].pc = "await"
    /\ calls["c1"].db = 2
    /\ calls["c2"].db = 2

\* C23: the edge adapter is never a singleton.  Every getDatabase(handle)
\* call with an edge handle constructs a manager no earlier call returned,
\* bound to that handle, and leaves the stored local instance as it was; the
\* stored instance is never an edge manager, and the handle of a manager
\* never changes, so no call gets a manager bound to another call's handle.
C23_EdgeAdapterIsFresh ==
    /\ [](/\ dbInstance # NoManager => managers[dbInstance].handle = None
          /\ \A c \in Callers :
                (calls[c].pc = "await"
                    /\ managers[calls[c].db].handle # None)
                    => \A d \in Callers \ {c} :
                          calls[d].pc = "await" => calls[d].db # calls[c].db)
    /\ [][ /\ \A c \in Callers, route \in Routes, handle \in Handles :
                GetDatabase(c, route, handle) =>
                    /\ calls'[c].db \notin DOMAIN managers
                    /\ managers'[calls'[c].db].handle = handle
                    /\ dbInstance' = dbInstance
           /\ \A m \in DOMAIN managers :
                m \in DOMAIN managers' /\ managers'[m].handle = managers[m].handle
         ]_vars

\* Two handlers hold adapters of two different handles while a local
\* singleton is stored.
C23_Witness ==
    /\ dbInstance # NoManager
    /\ calls["c1"].pc = "await"
    /\ calls["c2"].pc = "await"
    /\ managers[calls["c1"].db].handle = "DB1"
    /\ managers[calls["c2"].db].handle = "DB2"

\* C24: a handler bound to an edge engine uses its adapter only when the
\* adapter is ready.  Every handler that called getDatabase with an edge
\* handle and has gone on to operate on the result has issued a query
\* against the manager of its call after the schema initialization of that
\* manager completed.
C24_ReadyBeforeFirstUse ==
    \A c \in Callers :
        (calls[c].pc = "done" /\ managers[calls[c].db].handle # None)
            => /\ calls[c].used = "adapter"
               /\ managers[calls[c].db].state = "ready"


\* C25: an update that matches no row is not an error.  In every state,
\* updateAlias and markEmailAsRead called with an id no stored row has,
\* whatever the updates, raise nothing and leave every stored row as it is; and
\* updateDeviceLastSync with the id of no device leaves a device table as it
\* is.
C25_MissingRowUpdateIsNoError ==
    /\ \A id \in MailAliasIds \ DOMAIN aliases,
          ds \in Descriptions, f \in ActiveFlags :
            LET res == updateAlias(aliases, id,
                           [description |-> ds, isActive |-> f], now)
            IN ~res.raised /\ res.aliases = aliases
    /\ \A id \in MailEmailIds \ DOMAIN emails :
            markEmailAsRead(emails, id) = emails
    /\ LET devs == createDevice(<<>>, 1, "u1", "phone", "key", StartTime)
       IN updateDeviceLastSync(devs, 2, now) = devs


\* C26: engine failures leave the dispatcher normalized.  Whenever a handler
\* has issued a query against its adapter and the query failed, the error
\* that reached the handler is one of the taxonomy, Unavailable or Internal,
\* never the error of the engine.
C26_EngineErrorsNormalized ==
    \A c \in Callers :
        (calls[c].pc = "done" /\ calls[c].used = "adapter"
            /\ calls[c].outcome # "ok")
            => calls[c].outcome \in {"Unavailable", "Internal"}


C28_DecryptionIsBestEffort ==
    \A i \in DOMAIN batch :
        /\ ~decrypted[i].raised
        /\ decrypted[i] # Aborted
        /\ \A key \in MasterKeys :
              LET ct == batch[i].encryptedData
                  res == decryptSyncData(batch[i], key)
              IN /\ ~res.raised
                 /\ (ct = EmptyText \/ Decrypt(ct, key).raised
                        \/ Parse(Decrypt(ct, key).text).raised)
                        => res.value = "null"
        /\ (decrypted[i] # Pending /\ decrypted[i].value # "null")
              => \E key \in MasterKeys :
                    batch[i].encryptedData
                        = Encrypt(Stringify(decrypted[i].value), key)

\* A result whose first entry was decrypted with the wrong key and gave
\* null, and whose second entry then gave its payload.
C28_Witness ==
    /\ Len(batch) = 2
    /\ batch[1].encryptedData = Encrypt(Stringify("d1"), "k1")
    /\ batch[2].encryptedData = Encrypt(Stringify("d2"), "k2")
    /\ decrypted[1].value = "null"
    /\ decrypted[2].value = "d2"


\* C29: the two adapter variants are observationally equivalent.  After any
\* sequence of adapter operations from empty storage, the next operation on
\* the change log gives the same normalized result and the same error
\* outcome on the local engine the adapter initialized and on the edge engine
\* (set up by scripts/init-d1.js) the adapter initialized: the rows of both
\* are the same, their schemas are what the two initializations left.
C29_VariantsEquivalent ==
    LET local == initializeTables(DataIdColumn, {})
        edge == initializeTables(DataIdColumn, InitD1Schema)
    IN /\ \A u \in Users, t \in 0..MaxTime :
             getSyncDataAfterTimestamp(DataIdColumn, local, syncData, u, t)
               = getSyncDataAfterTimestamp(DataIdColumn, edge, syncData, u, t)
       /\ \A u \in Users, d \in DeviceIds, in \in RecordInputs :
             recordChange(DataIdColumn, local, devices, syncData, u, d, in,
                          now)
               = recordChange(DataIdColumn, edge, devices, syncData, u, d,
                              in, now)


\* C30: requests of different users are independent.  What an operation on
\* behalf of a user returns, and whether it succeeds, is what it would be on
\* the storage holding the rows of that user only: the alias and device
\* reads of the user, and the insertion of an allocation request that has
\* passed its lookup, are not changed by the rows other users have stored.
C30_UsersIndependent ==
    LET Own(rows, u) ==
            [x \in {y \in DOMAIN rows : rows[y].user_id = u} |-> rows[x]]
    IN /\ \A u \in Users :
             /\ getAliasesByUserId(aliases, u)
                   = getAliasesByUserId(Own(aliases, u), u)
             /\ getDevicesByUserId(devices, u)
                   = getDevicesByUserId(Own(devices, u), u)
       /\ \A s \in AllocSlots :
             alloc[s].pc = "insert" =>
                 LET row == [id |-> 0, userId |-> alloc[s].user,
                             alias |-> alloc[s].alias,
                             description |-> alloc[s].description,
                             forwardingEmail |-> "inbox",
                             isActive |-> "true"]
                 IN createAlias(aliases, row, now).raised
                      = createAlias(Own(aliases, alloc[s].user), row,
                                    now).raised


\* C31: registerDevice persists exactly one new device.  Every registration
\* step adds one row under an id no row had, owned by the authenticated user;
\* the device is then in the device list of that user and in no other
\* user's, and every device stored before is as it was.
C31_RegisterAddsOneDevice ==
    [][ \A auth \in AuthHeaders :
          RegisterDevice(auth, "phone", DeviceIds) =>
            \E id \in DOMAIN devices' \ DOMAIN devices :
              /\ DOMAIN devices' = DOMAIN devices \cup {id}
              /\ devices'[id].user_id = auth
              /\ \E row \in getDevicesByUserId(devices', auth) : row.id = id
              /\ \A u \in Users \ {auth} :
                    /\ \A row \in getDevicesByUserId(devices', u) :
                          row.id # id
                    /\ getDevicesByUserId(devices', u)
                          = getDevicesByUserId(devices, u)
              /\ \A d \in DOMAIN devices : devices'[d] = devices[d]
      ]_vars

\* Both users have registered a device, the second registration after a
\* sync round of the first device.
C31_Witness ==
    /\ DOMAIN devices = {1, 2}
    /\ devices[1].user_id # devices[2].user_id
    /\ client[1].ret # NoDate


\* C32: a sync round has no terminal failure state.  A step of a round that
\* ends the round in failure leaves the devices, the log and the alias table
\* as they are; and once a round of a registered device has failed, the
\* storage still lets a later round of the device complete: the log read of
\* a round, on the schema as any later initialization leaves it, does not
\* raise.
C32_FailedRoundCanBeRetried ==
    /\ [][ \A r \in Requests :
             (req'[r].status = "Internal" /\ req[r].status # "Internal")
                => UNCHANGED <<devices, syncData, aliases>> ]_vars
    /\ [](\A r \in Requests :
             (req[r].pc = "done" /\ req[r].status = "Internal")
                => ~getSyncDataAfterTimestamp(DataIdColumn,
                        initializeTables(DataIdColumn, tables), syncData,
                        req[r].user, MaxTime).raised)

\* C33: an alias update or delete request succeeds only for an alias owned by
\* the authenticated user.  Without a resolvable user the answer is
\* Unauthorized; for an alias id that does not exist or belongs to another
\* user it is NotFound; in both cases no alias row and no email row is
\* changed or removed.  A request that does act touches only the alias it
\* names, and that alias is owned by its user.
C33_EditOnlyOwnAlias ==
    [][ \A s \in EditSlots :
          /\ \A kind \in {"PUT", "DELETE"}, auth \in AuthHeaders,
                id \in MailAliasIds :
                (EditRequest(s, kind, auth, id, IdleEdit.updates)
                    /\ getAuthenticatedUser(auth) = None)
                => /\ edit'[s].status = "Unauthorized"
                   /\ UNCHANGED <<aliases, emails>>
          /\ (EditLookup(s)
                /\ ~(edit[s].id \in DOMAIN aliases
                        /\ aliases[edit[s].id].user_id = edit[s].user))
             => /\ edit'[s].status = "NotFound"
                /\ edit'[s].pc = "done"
                /\ UNCHANGED <<aliases, emails>>
          /\ (EditUpdate(s) \/ EditDeleteEmails(s) \/ EditDeleteRow(s))
             => /\ edit[s].id \in DOMAIN aliases
                /\ aliases[edit[s].id].user_id = edit[s].user
                /\ \A a \in DOMAIN aliases \ {edit[s].id} :
                      a \in DOMAIN aliases' /\ aliases'[a] = aliases[a]
                /\ \A m \in DOMAIN emails :
                      emails[m].alias_id # edit[s].id
                      => m \in DOMAIN emails' /\ emails'[m] = emails[m] ]_vars

\* A delete request for an alias of the other user, which holds mail, was
\* answered NotFound.
C33_Witness ==
    \E s \in EditSlots :
        /\ edit[s].status = "NotFound"
        /\ edit[s].kind = "DELETE"
        /\ edit[s].id \in DOMAIN aliases
        /\ aliases[edit[s].id].user_id # edit[s].user
        /\ \E m \in DOMAIN emails : emails[m].alias_id = edit[s].id

\* C34: deleteAlias is all-or-nothing with respect to failure: when one of
\* its two delete statements fails and the error reaches the caller (the
\* delete request is answered with an internal error), the alias row is still
\* there and none of its emails has been removed.
C34_DeleteAllOrNothing ==
    \A s \in EditSlots :
        (edit[s].kind = "DELETE" /\ edit[s].status = "Internal")
        => /\ edit[s].id \in DOMAIN aliases
           /\ edit[s].removed = {}

\* C35: handling requests bound to an edge engine handle (device
\* registration, sync) never constructs the process-wide local adapter: after
\* any sequence of such requests the local singleton is still absent and no
\* local manager exists.
C35_EdgeRequestsLeaveNoLocalSingleton ==
    /\ dbInstance = NoManager
    /\ \A m \in DOMAIN managers : managers[m].handle # None

\* C36: after the admin script has run to completion at least once, each of
\* the two admin emails has its one user row, flagged admin, whose key blob is
\* opened by the salt stored on the same row; and a further run creates no
\* row and changes none.
C36_AdminsCompleteAfterOneRun ==
    /\ [](completed > 0
          => \A email \in AdminEmails :
                /\ email \in DOMAIN users
                /\ users[email].is_admin = 1
                /\ decryptMasterKey(users[email].encryption_key,
                                    users[email].master_key_salt)
                      = generated[email])
    /\ [][ completed > 0 => users' = users ]_vars

\* C37: for every identifier and after any sequence of isRateLimited calls,
\* the recorded request times of the identifier that lie inside the current
\* window are never more than maxRequests; a call returns true exactly when
\* maxRequests requests are already recorded inside the window; a call that
\* returns true records nothing (and one that returns false records the
\* time of the call); and getRemainingRequests never changes what is
\* recorded.
C37_LimiterWithinLimit ==
    \A identifier \in {"ip1", "ip2"} :
        LET inWindow == Len(RecentRequests(requests, identifier, now))
            res == isRateLimited(requests, identifier, now)
        IN /\ inWindow <= maxRequests
           /\ res.limited <=> inWindow = maxRequests
           /\ res.limited => res.requests = requests
           /\ ~res.limited =>
                 Len(RecentRequests(res.requests, identifier, now))
                    = inWindow + 1
           /\ getRemainingRequests(requests, identifier, now).requests
                 = requests

\* An identifier was refused with maxRequests times in the window while an
\* older time of the other identifier has left the window.
C37_Witness ==
    /\ verdict.call = "isRateLimited"
    /\ verdict.value = TRUE
    /\ Len(RecentRequests(requests, verdict.identifier, now)) = maxRequests
    /\ \E other \in DOMAIN requests :
          /\ other # verdict.identifier
          /\ Len(requests[other]) > Len(RecentRequests(requests, other, now))

====
